---- MODULE Spec2Model ----
(***************************************************************************)
(* A model of cargo-gc: the live-set resolution, the deps-tree selection,  *)
(* the incremental-session reduction and the accounted deletion of         *)
(* src/src/main.rs, with the copy of the reduction in src/src/beatrice.rs. *)
(*                                                                         *)
(* Strings are sequences of one-character strings, so that the parsing of  *)
(* file names (rsplit_once, file_stem, extension) is computed as the code  *)
(* computes it.                                                            *)
(***************************************************************************)
EXTENDS Integers, Sequences, FiniteSets, TLC

(***************************************************************************)
(* Bounds of the model.                                                    *)
(***************************************************************************)
\* entries in the incremental directory
MaxSessions == 3
\* distinct modification times
MaxTime == 2
\* entries in the deps directory of a run
MaxDeps == 3
\* entries in the incremental directory of a run
MaxRunSessions == 2

VARIABLES
    \* ---- the incremental tree of the profile directory (filesystem) ----
    inc_exists,         \* <profile>/incremental exists
    inc_dir,            \* its first-level entries: [name, kind, mtime]
    \* ---- one call of incremental_files / Beatrice::load_incremental ----
    inc_impl,           \* which of the two copies of the function runs
    inc_pc,             \* "start", "loop", "done", "error"
    inc_todo,           \* entries read_dir has not yielded yet
    inc_order,          \* the entries in the order read_dir yielded them
    latest_one,         \* HashMap<String, (String, SystemTime)>
    pathbuf_to_remove,  \* HashSet of incremental_path.join(..)
    to_remove,          \* the returned HashSet of canonical paths
    \* ---- the deps tree of the profile directory (filesystem) ----
    deps_exists,        \* <profile>/deps exists and can be listed
    deps_dir,           \* its entries: [name, kind, target, size]
    \* ---- one run of main ----
    pc,                 \* position of main
    dry_run,            \* args.dry_run
    stdout,             \* the lines `cargo build --message-format=json` printed
    fingerprints,       \* the LiveSet: HashSet<(String, String)>
    files_to_remove,    \* HashSet<String> of canonical paths
    incremental_files_to_remove,
    rm_files,           \* what `for file in files_to_remove` has not visited
    rm_dirs,            \* what `for dir in incremental_files_to_remove` has not
    failed,             \* let mut failed
    total_count,        \* let total_count
    success_size,       \* let mut success_size
    report,             \* the figures of the final println!
    \* ---- history of the run (not program state) ----
    deps0,              \* deps_dir when the run started
    inc0,               \* inc_dir when the run started
    measured,           \* path -> the size the loop measured for it
    rm_failed,          \* the paths whose removal returned Err
    \* ---- one call of a function of utils.rs or of extract_fingerprint ----
    fn_name,            \* the function that was called, "none" before
    fn_arg,             \* its argument, a string
    fn_result,          \* what it returned
    \* ---- a Beatrice over the profile directory ----
    fp_exists,          \* <profile>/.fingerprint exists
    fp_dir,             \* its entries: [name]
    fingerprint_library,    \* HashMap<String, HashMap<String, FingerprintInfo>>
    deps_library,       \* HashMap<String, HashMap<String, ItemInfo>>
    lib_call,           \* the last method called on the Beatrice, with its
                        \* arguments (for load_library: the keys it found)
    lib_result          \* what that method returned

incVars == <<inc_exists, inc_dir, inc_impl, inc_pc, inc_todo, inc_order,
             latest_one, pathbuf_to_remove, to_remove>>

fsVars == <<deps_exists, deps_dir>>

runVars == <<pc, dry_run, stdout, fingerprints, files_to_remove,
             incremental_files_to_remove, rm_files, rm_dirs, failed,
             total_count, success_size, report>>

histVars == <<deps0, inc0, measured, rm_failed>>

utilVars == <<fn_name, fn_arg, fn_result>>

libVars == <<fp_exists, fp_dir, fingerprint_library, deps_library, lib_call,
             lib_result>>

vars == <<incVars, fsVars, runVars, histVars, utilVars, libVars>>

(***************************************************************************)
(* Option<T>                                                               *)
(***************************************************************************)
None == [some |-> FALSE]
Some(v) == [some |-> TRUE, val |-> v]

(***************************************************************************)
(* str::rsplit_once('-') and format!("{a}-{b}")                            *)
(***************************************************************************)
\* index of the last occurrence of c in s, 0 when there is none
LastIndexOf(s, c) ==
    LET I == {i \in 1..Len(s) : s[i] = c}
    IN  IF I = {} THEN 0 ELSE CHOOSE i \in I : \A j \in I : j <= i

\* index of the first occurrence of c in s, 0 when there is none
FirstIndexOf(s, c) ==
    LET I == {i \in 1..Len(s) : s[i] = c}
    IN  IF I = {} THEN 0 ELSE CHOOSE i \in I : \A j \in I : i <= j

\* the split taken at the first '-' (str::split_once)
extract_fingerprint_split_once(file_stem) ==
    LET k == FirstIndexOf(file_stem, "-")
    IN  IF k = 0
        THEN None
        ELSE Some([name |-> SubSeq(file_stem, 1, k - 1),
                   hash |-> SubSeq(file_stem, k + 1, Len(file_stem))])

extract_fingerprint(file_stem) ==
    LET k == LastIndexOf(file_stem, "-")
    IN  IF k = 0
        THEN None
        ELSE Some([name |-> SubSeq(file_stem, 1, k - 1),
                   hash |-> SubSeq(file_stem, k + 1, Len(file_stem))])

\* format!("{dep_name}-{hash}")
FormatSession(dep_name, hash) == dep_name \o <<"-">> \o hash

(***************************************************************************)
(* The incremental directory                                               *)
(***************************************************************************)
\* The entries the model draws the incremental directory from, with the
\* type DirEntry::file_type reports for each (a symlink is no directory) and,
\* for a directory, the size of the one file it holds.
IncUniverse ==
    { [name |-> <<"x", "-", "1">>,           kind |-> "dir",     size |-> 16],
      [name |-> <<"x", "-", "2">>,           kind |-> "dir",     size |-> 32],
      [name |-> <<"x", "-", "3">>,           kind |-> "dir",     size |-> 64],
      [name |-> <<"x", "-", "y", "-", "1">>, kind |-> "dir",     size |-> 128],
      [name |-> <<"x">>,                     kind |-> "dir",     size |-> 256],
      [name |-> <<"x", "-", "4">>,           kind |-> "file",    size |-> 512],
      [name |-> <<"x", "-", "5">>,           kind |-> "symlink", size |-> 0] }

Times == 1..MaxTime

\* the directories over the entries of `universe`, at most `max` entries,
\* every directory with a modification time (the time of an entry that is no
\* directory is never read)
DirsOver(universe, max, times) ==
    UNION { { { [name |-> u.name, kind |-> u.kind, size |-> u.size,
                 mtime |-> m[u]] : u \in U }
              : m \in { t \in [U -> times] :
                         \A u \in U : u.kind # "dir" => t[u] = 1 } }
            : U \in { V \in SUBSET universe : Cardinality(V) <= max } }

IncDirs == DirsOver(IncUniverse, MaxSessions, Times)

\* update_latest with `>=` for `>`: an equal timestamp displaces the incumbent
update_latest_ge(latest, remove, dep_name, hash, last_modified) ==
    IF dep_name \in DOMAIN latest
    THEN IF last_modified >= latest[dep_name].last_modified
         THEN LET assigned == [latest EXCEPT ![dep_name] =
                                  [hash |-> hash, last_modified |-> last_modified]]
              IN  [latest_one |-> assigned,
                   pathbuf_to_remove |->
                       remove \cup {FormatSession(dep_name, assigned[dep_name].hash)}]
         ELSE [latest_one |-> latest,
               pathbuf_to_remove |-> remove \cup {FormatSession(dep_name, hash)}]
    ELSE [latest_one |->
              [n \in DOMAIN latest \cup {dep_name} |->
                  IF n = dep_name
                  THEN [hash |-> hash, last_modified |-> last_modified]
                  ELSE latest[n]],
          pathbuf_to_remove |-> remove]

\* update_latest without the insert of the else arm: a session that is not
\* newer than the incumbent is forgotten instead of removed
update_latest_no_else(latest, remove, dep_name, hash, last_modified) ==
    IF dep_name \in DOMAIN latest
    THEN IF last_modified > latest[dep_name].last_modified
         THEN LET assigned == [latest EXCEPT ![dep_name] =
                                  [hash |-> hash, last_modified |-> last_modified]]
              IN  [latest_one |-> assigned,
                   pathbuf_to_remove |->
                       remove \cup {FormatSession(dep_name, assigned[dep_name].hash)}]
         ELSE [latest_one |-> latest, pathbuf_to_remove |-> remove]
    ELSE [latest_one |->
              [n \in DOMAIN latest \cup {dep_name} |->
                  IF n = dep_name
                  THEN [hash |-> hash, last_modified |-> last_modified]
                  ELSE latest[n]],
          pathbuf_to_remove |-> remove]

\* the step of the loop on one directory entry whose name parsed:
\* match latest_one.entry(dep_name.clone()) { .. }
\* In the Occupied/greater arm the path is formatted from prev_hash AFTER
\* `*prev_hash = hash`, that is from the hash of the entry being visited.
update_latest(latest, remove, dep_name, hash, last_modified) ==
    IF dep_name \in DOMAIN latest
    THEN IF last_modified > latest[dep_name].last_modified
         THEN LET assigned == [latest EXCEPT ![dep_name] =
                                  [hash |-> hash, last_modified |-> last_modified]]
              IN  [latest_one |-> assigned,
                   pathbuf_to_remove |->
                       remove \cup {FormatSession(dep_name, assigned[dep_name].hash)}]
         ELSE [latest_one |-> latest,
               pathbuf_to_remove |-> remove \cup {FormatSession(dep_name, hash)}]
    ELSE [latest_one |->
              [n \in DOMAIN latest \cup {dep_name} |->
                  IF n = dep_name
                  THEN [hash |-> hash, last_modified |-> last_modified]
                  ELSE latest[n]],
          pathbuf_to_remove |-> remove]

\* the same step in Beatrice::load_incremental
beatrice_update_latest(latest, remove, dep_name, hash, last_modified) ==
    IF dep_name \in DOMAIN latest
    THEN IF last_modified > latest[dep_name].last_modified
         THEN LET assigned == [latest EXCEPT ![dep_name] =
                                  [hash |-> hash, last_modified |-> last_modified]]
              IN  [latest_one |-> assigned,
                   pathbuf_to_remove |->
                       remove \cup {FormatSession(dep_name, assigned[dep_name].hash)}]
         ELSE [latest_one |-> latest,
               pathbuf_to_remove |-> remove \cup {FormatSession(dep_name, hash)}]
    ELSE [latest_one |->
              [n \in DOMAIN latest \cup {dep_name} |->
                  IF n = dep_name
                  THEN [hash |-> hash, last_modified |-> last_modified]
                  ELSE latest[n]],
          pathbuf_to_remove |-> remove]

\* one iteration of `for dir in dir_iter` on entry e (no I/O error):
\* entries that are no directory and names without '-' are skipped
visit_entry(impl, latest, remove, e) ==
    LET parsed == extract_fingerprint(e.name)
    IN  IF e.kind # "dir" \/ ~parsed.some
        THEN [latest_one |-> latest, pathbuf_to_remove |-> remove]
        ELSE IF impl = "incremental_files"
             THEN update_latest(latest, remove,
                                parsed.val.name, parsed.val.hash, e.mtime)
             ELSE beatrice_update_latest(latest, remove,
                                parsed.val.name, parsed.val.hash, e.mtime)

\* Utf8PathBuf::canonicalize_utf8 of incremental_path.join(p): the path must
\* exist; an entry of the listing that is a real directory is its own
\* canonical path below the canonical incremental directory
SessionPath(e) == <<"incremental">> \o <<"/">> \o e.name

canonicalize_session(dir, p) ==
    IF \E e \in dir : e.name = p /\ e.kind # "symlink"
    THEN Some(<<"incremental">> \o <<"/">> \o p)
    ELSE None

\* lines 152-159: canonicalize every path, the first error is returned
canonicalize_all(dir, paths) ==
    IF \E p \in paths : ~canonicalize_session(dir, p).some
    THEN None
    ELSE Some({ canonicalize_session(dir, p).val : p \in paths })

(***************************************************************************)
(* incremental_files / load_incremental, one directory entry per step      *)
(***************************************************************************)
\* main is not running
\* no function of utils.rs has been called
UtilIdle ==
    /\ fn_name = "none"
    /\ fn_arg = <<>>
    /\ fn_result = None

\* no Beatrice has been opened
LibIdle ==
    /\ fp_exists = FALSE
    /\ fp_dir = {}
    /\ fingerprint_library = <<>>
    /\ deps_library = <<>>
    /\ lib_call = "none"
    /\ lib_result = None

RunIdle ==
    /\ deps_exists = FALSE
    /\ deps_dir = {}
    /\ pc = "idle"
    /\ dry_run = FALSE
    /\ stdout = <<>>
    /\ fingerprints = {}
    /\ files_to_remove = {}
    /\ incremental_files_to_remove = {}
    /\ rm_files = {}
    /\ rm_dirs = {}
    /\ failed = 0
    /\ total_count = 0
    /\ success_size = 0
    /\ report = None
    /\ deps0 = {}
    /\ inc0 = {}
    /\ measured = <<>>
    /\ rm_failed = {}

IncInit ==
    /\ RunIdle
    /\ UtilIdle
    /\ LibIdle
    /\ inc_exists \in BOOLEAN
    /\ inc_dir \in (IF inc_exists THEN IncDirs ELSE {{}})
    /\ inc_impl \in {"incremental_files", "load_incremental"}
    /\ inc_pc = "start"
    /\ inc_todo = {}
    /\ inc_order = <<>>
    /\ latest_one = <<>>
    /\ pathbuf_to_remove = {}
    /\ to_remove = {}

\* if !incremental_path.exists() { return Ok(HashSet::new()) }
IncMissing ==
    /\ inc_pc = "start"
    /\ ~inc_exists
    /\ inc_pc' = "done"
    /\ to_remove' = {}
    /\ UNCHANGED <<inc_exists, inc_dir, inc_impl, inc_todo, inc_order,
                   latest_one, pathbuf_to_remove>>
    /\ UNCHANGED <<fsVars, runVars, histVars>>
    /\ UNCHANGED <<utilVars, libVars>>

\* fs::read_dir(incremental_path)?
IncReadDir ==
    /\ inc_pc = "start"
    /\ inc_exists
    /\ \E ok \in BOOLEAN :
          IF ok
          THEN /\ inc_pc' = "loop"
               /\ inc_todo' = inc_dir
          ELSE /\ inc_pc' = "error"
               /\ inc_todo' = inc_todo
    /\ UNCHANGED <<inc_exists, inc_dir, inc_impl, inc_order,
                   latest_one, pathbuf_to_remove, to_remove>>
    /\ UNCHANGED <<fsVars, runVars, histVars>>
    /\ UNCHANGED <<utilVars, libVars>>

\* one iteration of the loop; read_dir yields the entries in any order
IncEntry ==
    /\ inc_pc = "loop"
    /\ \E e \in inc_todo :
          LET r == visit_entry(inc_impl, latest_one, pathbuf_to_remove, e)
          IN  /\ inc_todo' = inc_todo \ {e}
              /\ inc_order' = Append(inc_order, e)
              /\ latest_one' = r.latest_one
              /\ pathbuf_to_remove' = r.pathbuf_to_remove
    /\ UNCHANGED <<inc_exists, inc_dir, inc_impl, inc_pc, to_remove>>
    /\ UNCHANGED <<fsVars, runVars, histVars>>
    /\ UNCHANGED <<utilVars, libVars>>

\* `dir?`, `dir.metadata()?` or `.modified()?` fails on an entry
IncEntryError ==
    /\ inc_pc = "loop"
    /\ inc_todo # {}
    /\ inc_pc' = "error"
    /\ UNCHANGED <<inc_exists, inc_dir, inc_impl, inc_todo, inc_order,
                   latest_one, pathbuf_to_remove, to_remove>>
    /\ UNCHANGED <<fsVars, runVars, histVars>>
    /\ UNCHANGED <<utilVars, libVars>>

\* the loop is over: canonicalize and return
IncCollect ==
    /\ inc_pc = "loop"
    /\ inc_todo = {}
    /\ LET c == canonicalize_all(inc_dir, pathbuf_to_remove)
       IN  \E io_ok \in BOOLEAN :
              IF c.some /\ (io_ok \/ pathbuf_to_remove = {})
              THEN inc_pc' = "done" /\ to_remove' = c.val
              ELSE inc_pc' = "error" /\ to_remove' = to_remove
    /\ UNCHANGED <<inc_exists, inc_dir, inc_impl, inc_todo, inc_order,
                   latest_one, pathbuf_to_remove>>
    /\ UNCHANGED <<fsVars, runVars, histVars>>
    /\ UNCHANGED <<utilVars, libVars>>

NextInc ==
    \/ IncMissing
    \/ IncReadDir
    \/ IncEntry
    \/ IncEntryError
    \/ IncCollect

SpecInc == IncInit /\ [][NextInc]_vars

(***************************************************************************)
(* std::path: file_name, file_stem, extension                              *)
(***************************************************************************)
\* the components of a path: split at '/', empty components (repeated or
\* trailing separators) and "." components dropped
RECURSIVE Components(_)
Components(path) ==
    LET I == {i \in 1..Len(path) : path[i] = "/"}
    IN  IF I = {}
        THEN IF path = <<>> \/ path = <<".">> THEN <<>> ELSE <<path>>
        ELSE LET k == CHOOSE i \in I : \A j \in I : i <= j
                 head == SubSeq(path, 1, k - 1)
                 rest == Components(SubSeq(path, k + 1, Len(path)))
             IN  IF head = <<>> \/ head = <<".">>
                 THEN rest
                 ELSE <<head>> \o rest

\* Path::file_name: the last component, None when there is none or it is ".."
file_name(path) ==
    LET c == Components(path)
    IN  IF c = <<>> \/ c[Len(c)] = <<".", ".">>
        THEN None
        ELSE Some(c[Len(c)])

\* std's rsplit_file_at_dot: (before, after) of the last '.', with the whole
\* name as the stem when there is no '.' or only a leading one
rsplit_file_at_dot(file) ==
    LET k == LastIndexOf(file, ".")
    IN  IF file = <<".", ".">> \/ k = 0 \/ k = 1
        THEN [before |-> Some(file), after |-> None]
        ELSE [before |-> Some(SubSeq(file, 1, k - 1)),
              after |-> Some(SubSeq(file, k + 1, Len(file)))]

\* Path::file_stem
file_stem(path) ==
    LET f == file_name(path)
    IN  IF ~f.some THEN None ELSE rsplit_file_at_dot(f.val).before

\* Path::extension
extension(path) ==
    LET f == file_name(path)
    IN  IF ~f.some THEN None ELSE rsplit_file_at_dot(f.val).after

\* Option::unwrap_or_default on a string
unwrap_or_default(o) == IF o.some THEN o.val ELSE <<>>

(***************************************************************************)
(* The build plan and OutputCollection::from_json                          *)
(***************************************************************************)
\* a line of the build output: the text of a JSON object that deserializes
\* to OutputItem (its `filenames` present or not), or text that does not
Item(filenames) == [json |-> TRUE, filenames |-> filenames]
Malformed == [json |-> FALSE, filenames |-> None]

OutPath(name) == <<"/", "t", "/">> \o name

\* the build outputs the model draws stdout from
Plans ==
    { <<>>,
      <<Item(None)>>,
      <<Item(Some(<<>>))>>,
      <<Item(Some(<<OutPath(<<"a", ".", "r">>), OutPath(<<".", ".">>)>>))>>,
      <<Item(Some(<<OutPath(<<"a", "-", "2", ".", "r">>)>>))>>,
      <<Item(None),
        Item(Some(<<OutPath(<<"a", "-", "1", ".", "r">>),
                    OutPath(<<"a", "-", "2", ".", "r">>)>>))>>,
      <<Item(Some(<<OutPath(<<"b", "-", "c", "-", "1", ".", "r">>)>>)),
        Item(Some(<<OutPath(<<"a", "-", "3", ".", "r">>),
                    OutPath(<<"a", ".", "d">>)>>))>>,
      <<Item(Some(<<OutPath(<<"a", "-", "2", ".", "r">>)>>)), Malformed>>,
      <<Malformed>> }

\* the inner loop inserting the name with every '-' made a '_'
RECURSIVE insert_filenames_normalized(_, _, _)
insert_filenames_normalized(names, i, set) ==
    IF i > Len(names)
    THEN set
    ELSE LET stem == unwrap_or_default(file_stem(names[i]))
             parsed == extract_fingerprint(stem)
         IN  IF stem = <<>> \/ ~parsed.some
             THEN insert_filenames_normalized(names, i + 1, set)
             ELSE insert_filenames_normalized(names, i + 1,
                      set \cup {<< [k \in 1..Len(parsed.val.name) |->
                                      IF parsed.val.name[k] = "-" THEN "_"
                                      ELSE parsed.val.name[k]],
                                   parsed.val.hash >>})

\* the inner loop: `for name in item.filenames.unwrap_or_default()`
RECURSIVE insert_filenames(_, _, _)
insert_filenames(names, i, set) ==
    IF i > Len(names)
    THEN set
    ELSE LET stem == unwrap_or_default(file_stem(names[i]))
             parsed == extract_fingerprint(stem)
         IN  IF stem = <<>> \/ ~parsed.some
             THEN insert_filenames(names, i + 1, set)
             ELSE insert_filenames(names, i + 1,
                      set \cup {<<parsed.val.name, parsed.val.hash>>})

\* the outer loop: `for item in result`
RECURSIVE collect_items(_, _, _)
collect_items(items, i, set) ==
    IF i > Len(items)
    THEN set
    ELSE collect_items(items, i + 1,
             insert_filenames(unwrap_or_default(items[i].filenames), 1, set))

\* from_json without the `if set.is_empty()` check
from_json_no_empty_check(json) ==
    IF \E i \in 1..Len(json) : ~json[i].json
    THEN None
    ELSE Some(collect_items(json, 1, {}))

\* OutputCollection::from_json: Err (None) or the set deps_fingerprints
from_json(json) ==
    IF \E i \in 1..Len(json) : ~json[i].json
    THEN None
    ELSE LET set == collect_items(json, 1, {})
         IN  IF set = {} THEN None ELSE Some(set)

(***************************************************************************)
(* The deps directory and the selection loop of main                       *)
(***************************************************************************)
NoTarget == <<>>

\* the entries the model draws the deps directory from; a symlink names the
\* entry of the directory it points to
DepsUniverse ==
    { [name |-> <<"a", "-", "1", ".", "r">>, kind |-> "file", target |-> NoTarget, size |-> 1],
      [name |-> <<"a", "-", "2", ".", "r">>, kind |-> "file", target |-> NoTarget, size |-> 2],
      [name |-> <<"a", "-", "1", ".", "d">>, kind |-> "file", target |-> NoTarget, size |-> 4],
      [name |-> <<"a", ".", "r">>,           kind |-> "file", target |-> NoTarget, size |-> 8],
      [name |-> <<"b", "-", "c", "-", "1">>, kind |-> "dir",  target |-> NoTarget, size |-> 0],
      [name |-> <<"a", "-", "3", ".", "r">>, kind |-> "symlink",
       target |-> <<"a", "-", "2", ".", "r">>, size |-> 0],
      [name |-> <<"a", "-", "4", ".", "r">>, kind |-> "symlink",
       target |-> <<"a", "-", "9", ".", "r">>, size |-> 0] }

DepsDirs == { V \in SUBSET DepsUniverse : Cardinality(V) <= MaxDeps }

DepsPath(name) == <<"deps">> \o <<"/">> \o name

\* canonicalize that gives a dangling symlink its own path instead of Err
canonicalize_lenient(dir, e) ==
    IF e.kind = "symlink" /\ \E t \in dir : t.name = e.target /\ t.kind # "symlink"
    THEN Some(DepsPath(e.target))
    ELSE Some(DepsPath(e.name))

\* Path::canonicalize of deps_path.join(e.name): symlinks are resolved, and
\* the path must exist
canonicalize(dir, e) ==
    IF e.kind # "symlink"
    THEN Some(DepsPath(e.name))
    ELSE IF \E t \in dir : t.name = e.target /\ t.kind # "symlink"
         THEN Some(DepsPath(e.target))
         ELSE None

\* the test of line 213 without `&& ext != "d"`
select_condition_no_ext(live, name, fingerprint, ext) ==
    <<name, fingerprint>> \notin live

\* the test of line 213 with one more condition: the unit of the file is not
\* known to be Fresh
select_condition_not_fresh(live, name, fingerprint, ext) ==
    /\ <<name, fingerprint>> \notin live
    /\ ext # <<"d">>
    /\ ~(/\ name \in DOMAIN fingerprint_library
         /\ fingerprint \in DOMAIN fingerprint_library[name]
         /\ fingerprint_library[name][fingerprint].freshness.kind = "Fresh")

\* the test of line 213
select_condition(live, name, fingerprint, ext) ==
    <<name, fingerprint>> \notin live /\ ext # <<"d">>

\* the loop `for file in files_iter` over the entries in the order `order`,
\* from entry i on: Err (None) or the set files_to_remove
RECURSIVE select_files(_, _, _, _, _)
select_files(dir, live, order, i, set) ==
    IF i > Len(order)
    THEN Some(set)
    ELSE LET file == order[i]
             path == DepsPath(file.name)
             ext == unwrap_or_default(extension(path))
             full_file_path == canonicalize(dir, file)
             stem == file_stem(path)
             parsed == extract_fingerprint(unwrap_or_default(stem))
         IN  IF file.kind = "dir"
             THEN select_files(dir, live, order, i + 1, set)
             ELSE IF ~full_file_path.some \/ ~stem.some
             THEN None
             ELSE IF ~parsed.some
             THEN select_files(dir, live, order, i + 1, set)
             ELSE IF select_condition(live, parsed.val.name, parsed.val.hash, ext)
             THEN select_files(dir, live, order, i + 1,
                               set \cup {full_file_path.val})
             ELSE select_files(dir, live, order, i + 1, set)

\* the sequences that enumerate the set S once each
Orders(S) ==
    { o \in [1..Cardinality(S) -> S] : \A e \in S : \E i \in DOMAIN o : o[i] = e }

(***************************************************************************)
(* incremental_files as main calls it: the whole function                  *)
(***************************************************************************)
RECURSIVE visit_entries(_, _, _, _)
visit_entries(order, i, latest, remove) ==
    IF i > Len(order)
    THEN [latest_one |-> latest, pathbuf_to_remove |-> remove]
    ELSE LET r == visit_entry("incremental_files", latest, remove, order[i])
         IN  visit_entries(order, i + 1, r.latest_one, r.pathbuf_to_remove)

\* Err (None) or the returned set, for the enumeration order `order` of the
\* directory; io_ok is whether every call into the filesystem succeeded
incremental_files(exists, dir, order, io_ok) ==
    IF ~exists
    THEN Some({})
    ELSE IF ~io_ok
    THEN None
    ELSE canonicalize_all(dir, visit_entries(order, 1, <<>>, {}).pathbuf_to_remove)

(***************************************************************************)
(* The execution phase of main                                             *)
(***************************************************************************)
\* `if args.dry_run` that never returns
abort_due_to_dry_run_never(flag) == FALSE

\* line 230: `if args.dry_run { .. return Ok(()) }`
abort_due_to_dry_run(flag) == flag

\* fs::metadata(&file).map(|m| m.len()).unwrap_or_default()
metadata_len(dir, file, stat_ok) ==
    IF stat_ok /\ \E e \in dir : DepsPath(e.name) = file
    THEN (CHOOSE e \in dir : DepsPath(e.name) = file).size
    ELSE 0

\* whether fs::remove_file(file) can succeed: the path is an existing
\* regular file
is_removable_file(dir, file) ==
    \E e \in dir : DepsPath(e.name) = file /\ e.kind = "file"

\* the accounting without the rollback of the size on failure
account_no_rollback(count, total, size, removed) ==
    IF removed
    THEN [failed |-> count, success_size |-> total + size]
    ELSE [failed |-> count + 1, success_size |-> total + size]

\* lines 241-246 and 259-264: success_size += size; on Err failed += 1 and
\* success_size -= size
account(count, total, size, removed) ==
    IF removed
    THEN [failed |-> count, success_size |-> total + size]
    ELSE [failed |-> count + 1, success_size |-> (total + size) - size]

\* `total_count - failed` on usize: the difference, or on underflow what the
\* build does: a panic (overflow checks on) or the value wrapped modulo 2^64,
\* kept as its distance n below 2^64
usize_sub(a, b) ==
    IF a >= b
    THEN { [kind |-> "value", n |-> a - b] }
    ELSE { [kind |-> "panic", n |-> 0], [kind |-> "wrapped", n |-> b - a] }

(***************************************************************************)
(* main, one phase per step                                                *)
(***************************************************************************)
\* the entries of the incremental directory of a run
RunIncUniverse ==
    { u \in IncUniverse :
        u.name \in { <<"x", "-", "1">>, <<"x", "-", "2">>, <<"x">>,
                     <<"x", "-", "4">> } }

\* the modification times of the session directories of a run
RunTimes == {1, 2}

RunInit ==
    /\ UtilIdle
    /\ LibIdle
    /\ inc_exists \in BOOLEAN
    /\ inc_dir \in (IF inc_exists
                    THEN DirsOver(RunIncUniverse, MaxRunSessions, RunTimes)
                    ELSE {{}})
    /\ inc_impl = "incremental_files"
    /\ inc_pc = "idle"
    /\ inc_todo = {}
    /\ inc_order = <<>>
    /\ latest_one = <<>>
    /\ pathbuf_to_remove = {}
    /\ to_remove = {}
    /\ deps_exists \in BOOLEAN
    /\ deps_dir \in (IF deps_exists THEN DepsDirs ELSE {{}})
    /\ pc = "start"
    /\ dry_run \in BOOLEAN
    /\ stdout = <<>>
    /\ fingerprints = {}
    /\ files_to_remove = {}
    /\ incremental_files_to_remove = {}
    /\ rm_files = {}
    /\ rm_dirs = {}
    /\ failed = 0
    /\ total_count = 0
    /\ success_size = 0
    /\ report = None
    /\ deps0 = deps_dir
    /\ inc0 = inc_dir
    /\ measured = <<>>
    /\ rm_failed = {}

\* get_fingerprints, lines 79-94: cargo build runs and its output is read
CargoBuild ==
    /\ pc = "start"
    /\ \/ \E out \in Plans :
             /\ stdout' = out
             /\ pc' = "from_json"
       \/ \* the command cannot be run, exits non-zero or prints no UTF-8
          /\ stdout' = stdout
          /\ pc' = "error"
    /\ UNCHANGED <<dry_run, fingerprints, files_to_remove,
                   incremental_files_to_remove, rm_files, rm_dirs, failed,
                   total_count, success_size, report>>
    /\ UNCHANGED <<incVars, fsVars, histVars>>
    /\ UNCHANGED <<utilVars, libVars>>

\* get_fingerprints, lines 95-96, and the `?` of line 168
FromJson ==
    /\ pc = "from_json"
    /\ LET collection == from_json(stdout)
       IN  IF collection.some
           THEN /\ fingerprints' = collection.val
                /\ pc' = "read_deps"
           ELSE /\ fingerprints' = fingerprints
                /\ pc' = "error"
    /\ UNCHANGED <<dry_run, stdout, files_to_remove,
                   incremental_files_to_remove, rm_files, rm_dirs, failed,
                   total_count, success_size, report>>
    /\ UNCHANGED <<incVars, fsVars, histVars>>
    /\ UNCHANGED <<utilVars, libVars>>

\* lines 169-177: cargo metadata, then fs::read_dir(deps_path)?
ReadDeps ==
    /\ pc = "read_deps"
    /\ \E io_ok \in BOOLEAN :
          pc' = IF deps_exists /\ io_ok THEN "select" ELSE "error"
    /\ UNCHANGED <<dry_run, stdout, fingerprints, files_to_remove,
                   incremental_files_to_remove, rm_files, rm_dirs, failed,
                   total_count, success_size, report>>
    /\ UNCHANGED <<incVars, fsVars, histVars>>
    /\ UNCHANGED <<utilVars, libVars>>

\* lines 179-218: the selection loop, read_dir yielding in any order;
\* io_ok is whether `file?` and `file_type()?` succeeded on every entry
SelectDeps ==
    /\ pc = "select"
    /\ \E order \in Orders(deps_dir), io_ok \in BOOLEAN :
          LET selected == select_files(deps_dir, fingerprints, order, 1, {})
          IN  IF selected.some /\ (io_ok \/ deps_dir = {})
              THEN /\ files_to_remove' = selected.val
                   /\ pc' = "incremental"
              ELSE /\ files_to_remove' = files_to_remove
                   /\ pc' = "error"
    /\ UNCHANGED <<dry_run, stdout, fingerprints,
                   incremental_files_to_remove, rm_files, rm_dirs, failed,
                   total_count, success_size, report>>
    /\ UNCHANGED <<incVars, fsVars, histVars>>
    /\ UNCHANGED <<utilVars, libVars>>

\* line 220: incremental_files(&profile_path)?
IncrementalFiles ==
    /\ pc = "incremental"
    /\ \E order \in Orders(inc_dir), io_ok \in BOOLEAN :
          LET r == incremental_files(inc_exists, inc_dir, order, io_ok)
          IN  /\ inc_order' = order
              /\ IF r.some
                 THEN /\ incremental_files_to_remove' = r.val
                      /\ pc' = "decide"
                 ELSE /\ incremental_files_to_remove' =
                             incremental_files_to_remove
                      /\ pc' = "error"
    /\ UNCHANGED <<dry_run, stdout, fingerprints, files_to_remove, rm_files,
                   rm_dirs, failed, total_count, success_size, report>>
    /\ UNCHANGED <<inc_exists, inc_dir, inc_impl, inc_pc, inc_todo,
                   latest_one, pathbuf_to_remove, to_remove>>
    /\ UNCHANGED <<fsVars, histVars>>
    /\ UNCHANGED <<utilVars, libVars>>

\* lines 226-238: the dry-run return, or the start of the removal
DryRunCheck ==
    /\ pc = "decide"
    /\ IF abort_due_to_dry_run(dry_run)
       THEN /\ pc' = "done"
            /\ UNCHANGED <<rm_files, rm_dirs, failed, total_count,
                           success_size>>
       ELSE /\ pc' = "execute"
            /\ failed' = 0
            /\ total_count' = Cardinality(files_to_remove)
            /\ success_size' = 0
            /\ rm_files' = files_to_remove
            /\ rm_dirs' = incremental_files_to_remove
    /\ UNCHANGED <<dry_run, stdout, fingerprints, files_to_remove,
                   incremental_files_to_remove, report>>
    /\ UNCHANGED <<incVars, fsVars, histVars>>
    /\ UNCHANGED <<utilVars, libVars>>

\* lines 239-247: one iteration of `for file in files_to_remove`
RemoveFile ==
    /\ pc = "execute"
    /\ \E file \in rm_files, stat_ok \in BOOLEAN, fs_ok \in BOOLEAN :
          LET size == metadata_len(deps_dir, file, stat_ok)
              removed == fs_ok /\ is_removable_file(deps_dir, file)
              acc == account(failed, success_size, size, removed)
          IN  /\ rm_files' = rm_files \ {file}
              /\ failed' = acc.failed
              /\ success_size' = acc.success_size
              /\ deps_dir' = IF removed
                             THEN { e \in deps_dir : DepsPath(e.name) # file }
                             ELSE deps_dir
              /\ measured' = (file :> size) @@ measured
              /\ rm_failed' = IF removed THEN rm_failed
                              ELSE rm_failed \cup {file}
    /\ UNCHANGED <<pc, dry_run, stdout, fingerprints, files_to_remove,
                   incremental_files_to_remove, rm_dirs, total_count, report>>
    /\ UNCHANGED <<incVars, deps_exists, deps0, inc0>>
    /\ UNCHANGED <<utilVars, libVars>>

\* lines 248-265: one iteration of `for dir in incremental_files_to_remove`;
\* fs::read_dir(dir)? returns from main when the directory cannot be listed
RemoveDir ==
    /\ pc = "execute"
    /\ rm_files = {}
    /\ \E dir \in rm_dirs :
          \/ /\ pc' = "exec_error"
             /\ UNCHANGED <<rm_dirs, failed, success_size, inc_dir, measured,
                            rm_failed>>
          \/ \E stat_ok \in BOOLEAN, removed \in BOOLEAN :
                LET e == CHOOSE d \in inc_dir : SessionPath(d) = dir
                    size == IF stat_ok THEN e.size ELSE 0
                    acc == account(failed, success_size, size, removed)
                IN  /\ pc' = pc
                    /\ rm_dirs' = rm_dirs \ {dir}
                    /\ failed' = acc.failed
                    /\ success_size' = acc.success_size
                    \* (a failed remove_dir_all leaves the directory in place)
                    /\ inc_dir' = IF removed THEN inc_dir \ {e} ELSE inc_dir
                    /\ measured' = (dir :> size) @@ measured
                    /\ rm_failed' = IF removed THEN rm_failed
                                    ELSE rm_failed \cup {dir}
    /\ UNCHANGED <<dry_run, stdout, fingerprints, files_to_remove,
                   incremental_files_to_remove, rm_files, total_count, report>>
    /\ UNCHANGED <<inc_exists, inc_impl, inc_pc, inc_todo, inc_order,
                   latest_one, pathbuf_to_remove, to_remove>>
    /\ UNCHANGED <<fsVars, deps0, inc0>>
    /\ UNCHANGED <<utilVars, libVars>>

\* lines 267-279: the final println!
FinalReport ==
    /\ pc = "execute"
    /\ rm_files = {}
    /\ rm_dirs = {}
    /\ \E d \in usize_sub(total_count, failed) :
          IF d.kind = "panic"
          THEN /\ pc' = "panic"
               /\ report' = report
          ELSE /\ pc' = "done"
               /\ report' = Some([removed |-> d.n,
                                  wrapped |-> d.kind = "wrapped",
                                  failed |-> failed,
                                  success_size |-> success_size])
    /\ UNCHANGED <<dry_run, stdout, fingerprints, files_to_remove,
                   incremental_files_to_remove, rm_files, rm_dirs, failed,
                   total_count, success_size>>
    /\ UNCHANGED <<incVars, fsVars, histVars>>
    /\ UNCHANGED <<utilVars, libVars>>

Next ==
    \/ CargoBuild
    \/ FromJson
    \/ ReadDeps
    \/ SelectDeps
    \/ IncrementalFiles
    \/ DryRunCheck
    \/ RemoveFile
    \/ RemoveDir
    \/ FinalReport

Spec == RunInit /\ [][Next]_vars

(***************************************************************************)
(* utils.rs, and the calls of the pure functions on their own              *)
(***************************************************************************)
\* str::replacen('-', "_", 1): only the first '-' is replaced
normalize_package_name_once(name) ==
    LET k == FirstIndexOf(name, "-")
    IN  [i \in 1..Len(name) |-> IF i = k THEN "_" ELSE name[i]]

\* name.replace('-', "_")
normalize_package_name(name) ==
    [i \in 1..Len(name) |-> IF name[i] = "-" THEN "_" ELSE name[i]]

\* every profile is its own directory
profile_to_dir_same(profile) == profile

\* if profile == "dev" { "debug" } else { profile }
profile_to_dir(profile) ==
    IF profile = <<"d", "e", "v">> THEN <<"d", "e", "b", "u", "g">> ELSE profile

\* the longest string drawn from the alphabet
MaxLen == 4

Alphabet == {"a", "-", "_"}

RECURSIVE StringsUpTo(_)
StringsUpTo(n) ==
    IF n = 0
    THEN {<<>>}
    ELSE LET S == StringsUpTo(n - 1)
         IN  S \cup {t \o <<c>> : t \in {u \in S : Len(u) = n - 1}, c \in Alphabet}

\* the strings of the examples and of the tests of utils.rs
Examples ==
    { <<"g", "i", "t", "2", "-", "c", "u", "r", "l", "-", "a", "b", "c", "1", "2", "3">>,
      <<"g", "i", "t", "2", "-", "c", "u", "r", "l">>,
      <<"g", "i", "t", "2", "_", "c", "u", "r", "l">>,
      <<"s", "i", "m", "p", "l", "e">>,
      <<"d", "e", "v">>,
      <<"d", "e", "b", "u", "g">>,
      <<"r", "e", "l", "e", "a", "s", "e">>,
      <<"c", "u", "s", "t", "o", "m">>,
      <<"t", "e", "s", "t">> }

Inputs == StringsUpTo(MaxLen) \cup Examples

\* no call of incremental_files is under way and there is no incremental tree
IncIdle ==
    /\ inc_exists = FALSE
    /\ inc_dir = {}
    /\ inc_impl = "incremental_files"
    /\ inc_pc = "idle"
    /\ inc_todo = {}
    /\ inc_order = <<>>
    /\ latest_one = <<>>
    /\ pathbuf_to_remove = {}
    /\ to_remove = {}

UtilInit ==
    /\ IncIdle
    /\ RunIdle
    /\ LibIdle
    /\ fn_name = "none"
    /\ fn_arg \in Inputs
    /\ fn_result = None

CallExtractFingerprint ==
    /\ fn_name = "none"
    /\ fn_name' = "extract_fingerprint"
    /\ fn_result' = Some(extract_fingerprint(fn_arg))
    /\ UNCHANGED <<fn_arg, incVars, fsVars, runVars, histVars, libVars>>

CallNormalizePackageName ==
    /\ fn_name = "none"
    /\ fn_name' = "normalize_package_name"
    /\ fn_result' = Some(normalize_package_name(fn_arg))
    /\ UNCHANGED <<fn_arg, incVars, fsVars, runVars, histVars, libVars>>

\* the function is called on what it returned
CallNormalizeAgain ==
    /\ fn_name = "normalize_package_name"
    /\ fn_arg # fn_result.val
    /\ fn_name' = "normalize_package_name"
    /\ fn_arg' = fn_result.val
    /\ fn_result' = Some(normalize_package_name(fn_result.val))
    /\ UNCHANGED <<incVars, fsVars, runVars, histVars, libVars>>

CallProfileToDir ==
    /\ fn_name = "none"
    /\ fn_name' = "profile_to_dir"
    /\ fn_result' = Some(profile_to_dir(fn_arg))
    /\ UNCHANGED <<fn_arg, incVars, fsVars, runVars, histVars, libVars>>

NextUtil ==
    \/ CallExtractFingerprint
    \/ CallNormalizePackageName
    \/ CallNormalizeAgain
    \/ CallProfileToDir

SpecUtil == UtilInit /\ [][NextUtil]_vars

(***************************************************************************)
(* beatrice.rs: the index of .fingerprint and deps                         *)
(***************************************************************************)
\* enum UnitFreshness
Fresh == [kind |-> "Fresh"]
Dirty(reason) == [kind |-> "Dirty", reason |-> reason]
Unknown == [kind |-> "Unknown"]

FingerprintInfo(freshness) == [freshness |-> freshness]
ItemInfo(last_modified, size) == [last_modified |-> last_modified, size |-> size]

\* library.entry(name).or_default().insert(hash, info)
insert(library, name, hash, info) ==
    LET inner == IF name \in DOMAIN library THEN library[name] ELSE <<>>
        put == [h \in DOMAIN inner \cup {hash} |->
                   IF h = hash THEN info ELSE inner[h]]
    IN  [n \in DOMAIN library \cup {name} |->
            IF n = name THEN put ELSE library[n]]

\* library.get(name).and_then(|m| m.get(hash))
get(library, name, hash) ==
    IF name \in DOMAIN library /\ hash \in DOMAIN library[name]
    THEN Some(library[name][hash])
    ELSE None

\* the (name, hash) pairs a library has a record for
Pairs(library) ==
    UNION { { <<n, h>> : h \in DOMAIN library[n] } : n \in DOMAIN library }

\* the entries order[i..n] of .fingerprint are visited
RECURSIVE scan_fingerprint_directory(_, _, _, _)
scan_fingerprint_directory(order, i, n, target_library) ==
    IF i > n
    THEN target_library
    ELSE LET parsed == extract_fingerprint(order[i].name)
         IN  scan_fingerprint_directory(order, i + 1, n,
                 IF parsed.some
                 THEN insert(target_library,
                             normalize_package_name(parsed.val.name),
                             parsed.val.hash, FingerprintInfo(Unknown))
                 ELSE target_library)

\* the entries order[i..n] of deps are visited; the size of a directory is
\* what calculate_dir_size adds up, the entry's size field
RECURSIVE scan_deps_directory(_, _, _, _)
scan_deps_directory(order, i, n, target_library) ==
    IF i > n
    THEN target_library
    ELSE LET parsed == extract_fingerprint(order[i].name)
         IN  scan_deps_directory(order, i + 1, n,
                 IF parsed.some
                 THEN insert(target_library,
                             normalize_package_name(parsed.val.name),
                             parsed.val.hash,
                             ItemInfo(order[i].mtime, order[i].size))
                 ELSE target_library)

\* where a scan fails: nowhere, or in one of the two directories after k of
\* its entries were visited (k = 0 is also a read_dir that fails)
NoFailure == [at |-> "none", k |-> 0]
FailPoints(order) == 0..(IF Len(order) = 0 THEN 0 ELSE Len(order) - 1)
Failures(fp_there, fp_order, deps_there, deps_order) ==
    {NoFailure}
    \cup (IF fp_there
          THEN {[at |-> "fingerprint", k |-> k] : k \in FailPoints(fp_order)}
          ELSE {})
    \cup (IF deps_there
          THEN {[at |-> "deps", k |-> k] : k \in FailPoints(deps_order)}
          ELSE {})

\* the scans add to what the libraries hold: no clear()
load_library_no_clear(held_fp, held_deps, fp_there, fp_order, deps_there, deps_order, fail) ==
    LET fp_n == IF fail.at = "fingerprint" THEN fail.k ELSE Len(fp_order)
        deps_n == IF fail.at = "deps" THEN fail.k ELSE Len(deps_order)
        scanned_fp == IF fp_there
                      THEN scan_fingerprint_directory(fp_order, 1, fp_n,
                                                      held_fp)
                      ELSE held_fp
    IN  IF fail.at = "fingerprint"
        THEN [fingerprint_library |-> scanned_fp, deps_library |-> held_deps,
              ok |-> FALSE]
        ELSE [fingerprint_library |-> scanned_fp,
              deps_library |-> IF deps_there
                               THEN scan_deps_directory(deps_order, 1, deps_n,
                                                        held_deps)
                               ELSE held_deps,
              ok |-> fail.at = "none"]

\* Beatrice::load_library: both maps are cleared, .fingerprint is scanned if it
\* exists, then deps if it exists; an Err leaves what was inserted until then
load_library(held_fp, held_deps, fp_there, fp_order, deps_there, deps_order, fail) ==
    LET fp_n == IF fail.at = "fingerprint" THEN fail.k ELSE Len(fp_order)
        deps_n == IF fail.at = "deps" THEN fail.k ELSE Len(deps_order)
        scanned_fp == IF fp_there
                      THEN scan_fingerprint_directory(fp_order, 1, fp_n, <<>>)
                      ELSE <<>>
    IN  IF fail.at = "fingerprint"
        THEN [fingerprint_library |-> scanned_fp, deps_library |-> <<>>,
              ok |-> FALSE]
        ELSE [fingerprint_library |-> scanned_fp,
              deps_library |-> IF deps_there
                               THEN scan_deps_directory(deps_order, 1, deps_n, <<>>)
                               ELSE <<>>,
              ok |-> fail.at = "none"]

\* the record is written whether or not the pair is there
update_fingerprint_freshness_upsert(library, name, hash, freshness) ==
    insert(library, normalize_package_name(name), hash, FingerprintInfo(freshness))

\* Beatrice::update_fingerprint_freshness
update_fingerprint_freshness(library, name, hash, freshness) ==
    LET normalized_name == normalize_package_name(name)
    IN  IF normalized_name \in DOMAIN library /\ hash \in DOMAIN library[normalized_name]
        THEN [library EXCEPT ![normalized_name][hash].freshness = freshness]
        ELSE library

\* the lookup by the name as it is given: no normalize_package_name
get_fingerprint_freshness_as_given(library, name, hash) ==
    LET found == get(library, name, hash)
    IN  IF found.some THEN Some(found.val.freshness) ELSE None

\* Beatrice::get_fingerprint_freshness
get_fingerprint_freshness(library, name, hash) ==
    LET found == get(library, normalize_package_name(name), hash)
    IN  IF found.some THEN Some(found.val.freshness) ELSE None

\* Beatrice::has_package
has_package(library, name) == normalize_package_name(name) \in DOMAIN library

\* Beatrice::get_deps_info
get_deps_info(library, name, hash) ==
    get(library, normalize_package_name(name), hash)

\* the deps record is looked up by the package name alone: any hash counts
Tally_by_name(fingerprint_lib, deps_lib, kind, with_deps) ==
    Cardinality({ p \in Pairs(fingerprint_lib) :
                    /\ fingerprint_lib[p[1]][p[2]].freshness.kind = kind
                    /\ (p[1] \in DOMAIN deps_lib) = with_deps })

\* the fingerprints of one freshness, with or without a deps record of the
\* same package name and hash
Tally(fingerprint_lib, deps_lib, kind, with_deps) ==
    Cardinality({ p \in Pairs(fingerprint_lib) :
                    /\ fingerprint_lib[p[1]][p[2]].freshness.kind = kind
                    /\ get(deps_lib, p[1], p[2]).some = with_deps })

CountOf(fingerprint_lib, kind) ==
    Cardinality({ p \in Pairs(fingerprint_lib) :
                    fingerprint_lib[p[1]][p[2]].freshness.kind = kind })

\* report() with the `else` branches missing: a fingerprint without a deps
\* record is counted in no `without deps` figure
report_no_else(fingerprint_lib, deps_lib) ==
    [fresh_count |-> CountOf(fingerprint_lib, "Fresh"),
     fresh_with_deps |-> Tally(fingerprint_lib, deps_lib, "Fresh", TRUE),
     fresh_without_deps |-> 0,
     dirty_count |-> CountOf(fingerprint_lib, "Dirty"),
     dirty_with_deps |-> Tally(fingerprint_lib, deps_lib, "Dirty", TRUE),
     dirty_without_deps |-> 0,
     unknown_count |-> CountOf(fingerprint_lib, "Unknown"),
     unknown_with_deps |-> Tally(fingerprint_lib, deps_lib, "Unknown", TRUE),
     unknown_without_deps |-> 0,
     total_fingerprints |-> CountOf(fingerprint_lib, "Fresh")
                            + CountOf(fingerprint_lib, "Dirty")
                            + CountOf(fingerprint_lib, "Unknown"),
     deps_without_fingerprints |->
         Cardinality({ p \in Pairs(deps_lib) : p \notin Pairs(fingerprint_lib) }),
     total_deps_items |-> Cardinality(Pairs(deps_lib))]

\* Beatrice::report: the figures the returned string holds
report_figures(fingerprint_lib, deps_lib) ==
    [fresh_count |-> CountOf(fingerprint_lib, "Fresh"),
     fresh_with_deps |-> Tally(fingerprint_lib, deps_lib, "Fresh", TRUE),
     fresh_without_deps |-> Tally(fingerprint_lib, deps_lib, "Fresh", FALSE),
     dirty_count |-> CountOf(fingerprint_lib, "Dirty"),
     dirty_with_deps |-> Tally(fingerprint_lib, deps_lib, "Dirty", TRUE),
     dirty_without_deps |-> Tally(fingerprint_lib, deps_lib, "Dirty", FALSE),
     unknown_count |-> CountOf(fingerprint_lib, "Unknown"),
     unknown_with_deps |-> Tally(fingerprint_lib, deps_lib, "Unknown", TRUE),
     unknown_without_deps |-> Tally(fingerprint_lib, deps_lib, "Unknown", FALSE),
     total_fingerprints |-> CountOf(fingerprint_lib, "Fresh")
                            + CountOf(fingerprint_lib, "Dirty")
                            + CountOf(fingerprint_lib, "Unknown"),
     deps_without_fingerprints |->
         Cardinality({ p \in Pairs(deps_lib) : p \notin Pairs(fingerprint_lib) }),
     total_deps_items |-> Cardinality(Pairs(deps_lib))]

(***************************************************************************)
(* A Beatrice in use: open, scans, freshness updates, queries, reports,    *)
(* and the build tool changing the two directories in between              *)
(***************************************************************************)
\* the most entries of .fingerprint, and of deps under a Beatrice
MaxFp == 2
MaxLibDeps == 2

FpUniverse ==
    { [name |-> <<"a", "-", "1">>],
      [name |-> <<"b", "-", "c", "-", "1">>],
      [name |-> <<"x">>] }

LibDepsUniverse ==
    { [name |-> <<"a", "-", "1", ".", "r">>, kind |-> "file", size |-> 1, mtime |-> 1],
      [name |-> <<"a", "-", "1">>, kind |-> "file", size |-> 2, mtime |-> 2],
      [name |-> <<"x", ".", "r">>, kind |-> "file", size |-> 8, mtime |-> 1] }

\* the arguments of the calls
LibNames == {<<"a">>, <<"b", "-", "c">>}
LibHashes == {<<"1">>}
Freshnesses == {Fresh, Dirty(<<"r">>), Unknown}

Call(op, name, hash) == [op |-> op, name |-> name, hash |-> hash]

\* main is not running
MainIdle ==
    /\ pc = "idle"
    /\ dry_run = FALSE
    /\ stdout = <<>>
    /\ fingerprints = {}
    /\ files_to_remove = {}
    /\ incremental_files_to_remove = {}
    /\ rm_files = {}
    /\ rm_dirs = {}
    /\ failed = 0
    /\ total_count = 0
    /\ success_size = 0
    /\ report = None
    /\ deps0 = {}
    /\ inc0 = {}
    /\ measured = <<>>
    /\ rm_failed = {}

\* Beatrice::open over a profile directory
LibInit ==
    /\ IncIdle
    /\ MainIdle
    /\ UtilIdle
    /\ fp_exists \in BOOLEAN
    /\ fp_dir \in (IF fp_exists
                   THEN {V \in SUBSET FpUniverse : Cardinality(V) <= MaxFp}
                   ELSE {{}})
    /\ deps_exists \in BOOLEAN
    /\ deps_dir \in (IF deps_exists
                     THEN {V \in SUBSET LibDepsUniverse : Cardinality(V) <= MaxLibDeps}
                     ELSE {{}})
    /\ fingerprint_library = <<>>
    /\ deps_library = <<>>
    /\ lib_call = Call("open", <<>>, <<>>)
    /\ lib_result = None

LoadLibrary ==
    \E fp_order \in Orders(fp_dir), deps_order \in Orders(deps_dir) :
      \E fail \in Failures(fp_exists, fp_order, deps_exists, deps_order) :
        LET r == load_library(fingerprint_library, deps_library, fp_exists,
                              fp_order, deps_exists, deps_order, fail)
        IN  /\ fingerprint_library' = r.fingerprint_library
            /\ deps_library' = r.deps_library
            /\ lib_call' = [op |-> "load_library", name |-> <<>>, hash |-> <<>>,
                            before |-> [fingerprints |-> Pairs(fingerprint_library),
                                        deps |-> Pairs(deps_library)]]
            /\ lib_result' = Some(r.ok)
            /\ UNCHANGED <<fp_exists, fp_dir, fsVars, incVars, runVars,
                           histVars, utilVars>>

UpdateFingerprintFreshness ==
    \E name \in LibNames, hash \in LibHashes, freshness \in Freshnesses :
        /\ fingerprint_library' =
               update_fingerprint_freshness(fingerprint_library, name, hash,
                                            freshness)
        /\ lib_call' = [op |-> "update_fingerprint_freshness", name |-> name,
                        hash |-> hash, freshness |-> freshness]
        /\ lib_result' = None
        /\ UNCHANGED <<fp_exists, fp_dir, deps_library, fsVars, incVars,
                       runVars, histVars, utilVars>>

GetFingerprintFreshness ==
    \E name \in LibNames, hash \in LibHashes :
        /\ lib_call' = Call("get_fingerprint_freshness", name, hash)
        /\ lib_result' = get_fingerprint_freshness(fingerprint_library, name, hash)
        /\ UNCHANGED <<fp_exists, fp_dir, fingerprint_library, deps_library,
                       fsVars, incVars, runVars, histVars, utilVars>>

HasPackage ==
    \E name \in LibNames :
        /\ lib_call' = Call("has_package", name, <<>>)
        /\ lib_result' = Some(has_package(fingerprint_library, name))
        /\ UNCHANGED <<fp_exists, fp_dir, fingerprint_library, deps_library,
                       fsVars, incVars, runVars, histVars, utilVars>>

GetDepsInfo ==
    \E name \in LibNames, hash \in LibHashes :
        /\ lib_call' = Call("get_deps_info", name, hash)
        /\ lib_result' = get_deps_info(deps_library, name, hash)
        /\ UNCHANGED <<fp_exists, fp_dir, fingerprint_library, deps_library,
                       fsVars, incVars, runVars, histVars, utilVars>>

Report ==
    /\ lib_call' = Call("report", <<>>, <<>>)
    /\ lib_result' = Some(report_figures(fingerprint_library, deps_library))
    /\ UNCHANGED <<fp_exists, fp_dir, fingerprint_library, deps_library,
                   fsVars, incVars, runVars, histVars, utilVars>>

\* the build tool writes or removes one entry of .fingerprint or of deps, or
\* creates or removes one of the two directories
ProfileChanges ==
    /\ \/ /\ fp_exists
          /\ \E e \in FpUniverse :
                /\ fp_dir' = (IF e \in fp_dir THEN fp_dir \ {e} ELSE fp_dir \cup {e})
                /\ Cardinality(fp_dir') <= MaxFp
          /\ UNCHANGED <<fp_exists, fsVars>>
       \/ /\ fp_dir = {}
          /\ fp_exists' = ~fp_exists
          /\ UNCHANGED <<fp_dir, fsVars>>
       \/ /\ deps_exists
          /\ \E e \in LibDepsUniverse :
                /\ deps_dir' = (IF e \in deps_dir THEN deps_dir \ {e}
                                ELSE deps_dir \cup {e})
                /\ Cardinality(deps_dir') <= MaxLibDeps
          /\ UNCHANGED <<fp_exists, fp_dir, deps_exists>>
       \/ /\ deps_dir = {}
          /\ deps_exists' = ~deps_exists
          /\ UNCHANGED <<fp_exists, fp_dir, deps_dir>>
    /\ UNCHANGED <<fingerprint_library, deps_library, lib_call, lib_result,
                   incVars, runVars, histVars, utilVars>>

NextLib ==
    \/ LoadLibrary
    \/ UpdateFingerprintFreshness
    \/ GetFingerprintFreshness
    \/ HasPackage
    \/ GetDepsInfo
    \/ Report
    \/ ProfileChanges

SpecLib == LibInit /\ [][NextLib]_vars

(***************************************************************************)
(* The plan of a run beside a Beatrice that scan.rs may have annotated     *)
(***************************************************************************)
\* the units of the unit graph: (package name, fingerprint hash)
Units == { <<n, h>> : n \in LibNames, h \in LibHashes }

\* the loop of Scanner::scan over the units in `order`: each unit is Fresh
\* or Dirty, and the Beatrice is told
RECURSIVE scan_units(_, _, _, _)
scan_units(order, i, is_fresh, library) ==
    IF i > Len(order)
    THEN library
    ELSE scan_units(order, i + 1, is_fresh,
             update_fingerprint_freshness(library, order[i][1], order[i][2],
                 IF is_fresh[order[i]] THEN Fresh ELSE Dirty(<<"r">>)))

\* a dry run is about to start in a profile directory whose deps tree holds
\* files only and whose .fingerprint has been scanned; no oracle has run:
\* every fingerprint is Unknown
FreshInit ==
    /\ UtilIdle
    /\ inc_exists \in BOOLEAN
    /\ inc_dir \in (IF inc_exists
                    THEN DirsOver(RunIncUniverse, MaxRunSessions, RunTimes)
                    ELSE {{}})
    /\ inc_impl = "incremental_files"
    /\ inc_pc = "idle"
    /\ inc_todo = {}
    /\ inc_order = <<>>
    /\ latest_one = <<>>
    /\ pathbuf_to_remove = {}
    /\ to_remove = {}
    /\ deps_exists = TRUE
    /\ deps_dir \in { V \in DepsDirs : \A e \in V : e.kind = "file" }
    /\ pc = "start"
    /\ dry_run = TRUE
    /\ stdout = <<>>
    /\ fingerprints = {}
    /\ files_to_remove = {}
    /\ incremental_files_to_remove = {}
    /\ rm_files = {}
    /\ rm_dirs = {}
    /\ failed = 0
    /\ total_count = 0
    /\ success_size = 0
    /\ report = None
    /\ deps0 = deps_dir
    /\ inc0 = inc_dir
    /\ measured = <<>>
    /\ rm_failed = {}
    /\ fp_exists = TRUE
    /\ fp_dir = { e \in FpUniverse : extract_fingerprint(e.name).some }
    /\ \E order \in Orders(fp_dir) :
          fingerprint_library =
              scan_fingerprint_directory(order, 1, Len(order), <<>>)
    /\ deps_library = <<>>
    /\ lib_call = Call("open", <<>>, <<>>)
    /\ lib_result = None

\* Scanner::scan, before the run: the units of some unit graph are found
\* Fresh or Dirty
ScannerScan ==
    /\ pc = "start"
    /\ lib_call.op = "open"
    /\ \E graph \in SUBSET Units :
          \E order \in Orders(graph), is_fresh \in [graph -> BOOLEAN] :
              fingerprint_library' =
                  scan_units(order, 1, is_fresh, fingerprint_library)
    /\ lib_call' = Call("scan", <<>>, <<>>)
    /\ UNCHANGED <<fp_exists, fp_dir, deps_library, lib_result>>
    /\ UNCHANGED <<incVars, fsVars, runVars, histVars, utilVars>>

NextFresh ==
    \/ ScannerScan
    \/ CargoBuild
    \/ FromJson
    \/ ReadDeps
    \/ SelectDeps
    \/ IncrementalFiles
    \/ DryRunCheck

SpecFresh == FreshInit /\ [][NextFresh]_vars

(***************************************************************************)
(* args.rs and config.rs: the command line, and what main makes of it      *)
(*                                                                         *)
(* An argument is a sequence: the name of an option is one element         *)
(* ("--profile"), so is "=", and a value is its characters.                *)
(***************************************************************************)
ProfileDev == <<"d", "e", "v">>
ProfileDebug == <<"d", "e", "b", "u", "g">>
ProfileRelease == <<"r", "e", "l", "e", "a", "s", "e">>
ProfileTest == <<"t", "e", "s", "t">>
ProfileBench == <<"b", "e", "n", "c", "h">>

\* str::starts_with(option "=") and str::strip_prefix(option "=")
starts_with(arg, option) == Len(arg) >= 2 /\ arg[1] = option /\ arg[2] = "="
strip_prefix(arg, option) == SubSeq(arg, 3, Len(arg))

\* the loop `while i < cargo_args.len()` from index i (1-based) on
RECURSIVE parse_loop(_, _, _)
parse_loop(cargo_args, i, parsed) ==
    IF i > Len(cargo_args)
    THEN parsed
    ELSE LET arg == cargo_args[i]
             has_next == i + 1 <= Len(cargo_args)
         IN  IF arg = <<"--features">>
             THEN IF has_next
                  THEN parse_loop(cargo_args, i + 2,
                           [parsed EXCEPT !.features_args =
                               Append(@, cargo_args[i + 1])])
                  ELSE parse_loop(cargo_args, i + 1, parsed)
             ELSE IF arg = <<"--all-features">>
             THEN parse_loop(cargo_args, i + 1,
                      [parsed EXCEPT !.all_features = TRUE])
             ELSE IF arg = <<"--no-default-features">>
             THEN parse_loop(cargo_args, i + 1,
                      [parsed EXCEPT !.no_default_features = TRUE])
             ELSE IF arg = <<"--target">>
             THEN IF has_next
                  THEN parse_loop(cargo_args, i + 2,
                           [parsed EXCEPT !.target_args =
                               Append(@, cargo_args[i + 1])])
                  ELSE parse_loop(cargo_args, i + 1, parsed)
             ELSE IF arg = <<"--profile">>
             THEN IF has_next
                  THEN parse_loop(cargo_args, i + 2,
                           [parsed EXCEPT !.additional_profile =
                               Some(cargo_args[i + 1])])
                  ELSE parse_loop(cargo_args, i + 1, parsed)
             ELSE IF starts_with(arg, "--features")
             THEN parse_loop(cargo_args, i + 1,
                      [parsed EXCEPT !.features_args =
                          Append(@, strip_prefix(arg, "--features"))])
             ELSE IF starts_with(arg, "--target")
             THEN parse_loop(cargo_args, i + 1,
                      [parsed EXCEPT !.target_args =
                          Append(@, strip_prefix(arg, "--target"))])
             ELSE IF starts_with(arg, "--profile")
             THEN parse_loop(cargo_args, i + 1,
                      [parsed EXCEPT !.additional_profile =
                          Some(strip_prefix(arg, "--profile"))])
             ELSE parse_loop(cargo_args, i + 1, parsed)

\* StaticScanConfig::parse_cargo_args
parse_cargo_args(cargo_args) ==
    parse_loop(cargo_args, 1,
               [features_args |-> <<>>, all_features |-> FALSE,
                no_default_features |-> FALSE, target_args |-> <<>>,
                additional_profile |-> None])

\* cargo's CliFeatures::new_all(all_features): default features stay on
new_all(all_features) ==
    [all_features |-> all_features, uses_default_features |-> TRUE]

\* cargo's CliFeatures::from_command_line: Err (None) for a feature written
\* with the `dep:` syntax, else the two flags as given
from_command_line(features, all_features, uses_default_features) ==
    IF \E k \in 1..Len(features) : features[k] # <<>> /\ features[k][1] = "dep:"
    THEN None
    ELSE Some([all_features |-> all_features,
               uses_default_features |-> uses_default_features])

\* `let features = if parsed.all_features {..} else {..}`, lines 126-135
features_of(parsed) ==
    IF parsed.all_features
    THEN new_all(TRUE)
    ELSE LET r == from_command_line(parsed.features_args, FALSE,
                                    ~parsed.no_default_features)
         IN  IF r.some THEN r.val ELSE new_all(FALSE)

\* StaticScanConfig::from_args (work_dir, the current directory, left out)
from_args(args) ==
    LET parsed == parse_cargo_args(args.cargo_args)
        effective_profile == IF parsed.additional_profile.some
                             THEN parsed.additional_profile.val
                             ELSE args.profile
    IN  [features |-> features_of(parsed),
         requested_kinds |-> <<"Host">>,
         mode |-> IF effective_profile \in {ProfileTest, ProfileBench}
                  THEN "Test" ELSE "Build",
         has_dev_units |-> IF effective_profile \in {ProfileTest, ProfileBench}
                           THEN "Yes" ELSE "No",
         force_all_targets |-> "No",
         profile_name |-> effective_profile]

\* Args::from_cli: None stands for the panic on --profile with --release
from_cli(cli) ==
    IF ~cli.profile.some /\ cli.release
    THEN Some([profile |-> ProfileRelease, dry_run |-> cli.dry_run,
               cargo_args |-> cli.cargo_args])
    ELSE IF ~cli.profile.some
    THEN Some([profile |-> ProfileDev, dry_run |-> cli.dry_run,
               cargo_args |-> cli.cargo_args])
    ELSE IF cli.release
    THEN None
    ELSE Some([profile |-> cli.profile.val, dry_run |-> cli.dry_run,
               cargo_args |-> cli.cargo_args])

\* Args::cargo_profile_args
cargo_profile_args(args) ==
    IF args.profile # ProfileDebug
    THEN <<<<"--profile">>, args.profile>>
    ELSE <<>>

\* metadata.target_directory
TargetPath == <<"target">>

\* main, line 174: target_path.join(args.profile)
profile_path_of(target_path, profile) == target_path \o <<"/">> \o profile

\* the most pass-through arguments of a command line
MaxArgs == 3

\* the arguments the command lines are made of
ArgUniverse ==
    { <<"--verbose">>, <<"--all-features">>, <<"--no-default-features">>,
      <<"--features">>, <<"f">>, <<"dep:", "x">>,
      <<"--features", "=", "f">>,
      <<"--target">>, <<"--target", "=", "t">>,
      <<"--profile">>, ProfileTest,
      <<"--profile", "=">> \o ProfileBench }

RECURSIVE ArgsUpTo(_)
ArgsUpTo(n) ==
    IF n = 0
    THEN {<<>>}
    ELSE LET S == ArgsUpTo(n - 1)
         IN  S \cup {t \o <<a>> : t \in {u \in S : Len(u) = n - 1},
                                  a \in ArgUniverse}

Clis ==
    [profile : {None, Some(ProfileDebug), Some(ProfileTest)},
     release : BOOLEAN,
     dry_run : {FALSE},
     cargo_args : ArgsUpTo(MaxArgs)]

\* a command line has been parsed by clap
CliInit ==
    /\ IncIdle
    /\ RunIdle
    /\ LibIdle
    /\ fn_name = "none"
    /\ fn_arg \in Clis
    /\ fn_result = None

CallFromCli ==
    /\ fn_name = "none"
    /\ fn_name' = "from_cli"
    /\ fn_result' = from_cli(fn_arg)
    /\ UNCHANGED <<fn_arg, incVars, fsVars, runVars, histVars, libVars>>

\* main, line 166, on the Args of line 165
CallFromArgs ==
    /\ fn_name = "from_cli"
    /\ fn_result.some
    /\ fn_name' = "from_args"
    /\ fn_arg' = fn_result.val
    /\ fn_result' = Some(from_args(fn_result.val))
    /\ UNCHANGED <<incVars, fsVars, runVars, histVars, libVars>>

\* get_fingerprints, lines 81-84: the arguments of cargo build
CallCargoProfileArgs ==
    /\ fn_name = "from_cli"
    /\ fn_result.some
    /\ fn_name' = "cargo_profile_args"
    /\ fn_arg' = fn_result.val
    /\ fn_result' = Some(cargo_profile_args(fn_result.val))
    /\ UNCHANGED <<incVars, fsVars, runVars, histVars, libVars>>

\* main, lines 165 and 169-175: the profile directory of the run
CallProfilePath ==
    /\ fn_name = "none"
    /\ fn_name' = "profile_path"
    /\ fn_result' = LET args == from_cli(fn_arg)
                    IN  IF args.some
                        THEN Some(profile_path_of(TargetPath, args.val.profile))
                        ELSE None
    /\ UNCHANGED <<fn_arg, incVars, fsVars, runVars, histVars, libVars>>

NextCli ==
    \/ CallFromCli
    \/ CallFromArgs
    \/ CallCargoProfileArgs
    \/ CallProfilePath

SpecCli == CliInit /\ [][NextCli]_vars

(***************************************************************************)
(* Claims about the incremental reduction (checked under SpecInc)          *)
(***************************************************************************)
\* the session directories of the listing: real directories whose name parses
SessionsOf(dir) ==
    { e \in dir : e.kind = "dir" /\ extract_fingerprint(e.name).some }
Sessions == SessionsOf(inc_dir)
SessionName(e) == extract_fingerprint(e.name).val.name
SameName(e) == { f \in Sessions : SessionName(f) = SessionName(e) }
\* position of an entry in the order of enumeration
EnumIndex(e) == CHOOSE i \in 1..Len(inc_order) : inc_order[i] = e

\* C1: for every name whose sessions have pairwise distinct modification
\* times, after the reduction the session with the greatest time is not in
\* the removal set and every other session of the name is in it.
C1_NewestRetained ==
    inc_pc = "done" =>
        \A e \in Sessions :
            (\A f, g \in SameName(e) : f # g => f.mtime # g.mtime)
            => (SessionPath(e) \in to_remove
                    <=> \E f \in SameName(e) : f.mtime > e.mtime)

\* what the code does instead: the session enumerated first of its name is
\* the one that is kept, whatever the modification times
C1_FirstEnumeratedRetained ==
    inc_pc = "done" =>
        \A e \in Sessions :
            SessionPath(e) \in to_remove
                <=> \E f \in SameName(e) : EnumIndex(f) < EnumIndex(e)

\* the final state of a name with exactly two sessions of equal times: the
\* first enumerated is kept, the second is removed; and of any two sessions
\* of one name with equal times the later enumerated is removed
TieResult ==
    \A a, b \in Sessions :
        (a # b /\ SessionName(a) = SessionName(b) /\ a.mtime = b.mtime
            /\ EnumIndex(a) < EnumIndex(b))
        => /\ SessionPath(b) \in to_remove
           /\ SameName(a) = {a, b} => SessionPath(a) \notin to_remove

\* the loop step visits a session whose time equals the incumbent's
TieStep ==
    /\ Len(inc_order') = Len(inc_order) + 1
    /\ LET e == inc_order'[Len(inc_order')]
           p == extract_fingerprint(e.name)
       IN  /\ e.kind = "dir"
           /\ p.some
           /\ p.val.name \in DOMAIN latest_one
           /\ latest_one[p.val.name].last_modified = e.mtime

\* C2: a session enumerated with a modification time equal to the recorded
\* incumbent's never replaces the incumbent and is itself put in the removal
\* set; of two sessions of a name with equal times the first enumerated is
\* retained and the later one removed.
C2_TieKeepsIncumbent ==
    [][ /\ TieStep =>
             LET e == inc_order'[Len(inc_order')]
                 n == extract_fingerprint(e.name).val.name
             IN  /\ latest_one' = latest_one
                 /\ e.name \in pathbuf_to_remove'
                 /\ pathbuf_to_remove' \ pathbuf_to_remove \subseteq {e.name}
                 /\ FormatSession(n, latest_one[n].hash) # e.name
        /\ (inc_pc # "done" /\ inc_pc' = "done") => TieResult' ]_vars

C2_Witness ==
    /\ inc_pc = "done"
    /\ \E a, b \in Sessions :
          /\ a # b /\ SameName(a) = {a, b} /\ a.mtime = b.mtime
          /\ EnumIndex(a) < EnumIndex(b)
          /\ SessionPath(b) \in to_remove
          /\ SessionPath(a) \notin to_remove

\* C3: after the reduction, of the n >= 1 session directories of a name
\* exactly n-1 are in the removal set, and nothing else is removed.
C3_OneRetainedPerName ==
    inc_pc = "done" =>
        /\ \A e \in Sessions :
              Cardinality({ f \in SameName(e) : SessionPath(f) \in to_remove })
                  = Cardinality(SameName(e)) - 1
        /\ to_remove \subseteq { SessionPath(e) : e \in Sessions }

C3_Witness ==
    /\ inc_pc = "done"
    /\ \E e \in Sessions :
          /\ Cardinality(SameName(e)) >= 3
          /\ \E f, g \in SameName(e) : f.mtime # g.mtime
          /\ Cardinality({ f \in SameName(e) : SessionPath(f) \in to_remove }) = 2

(***************************************************************************)
(* Claims about a run of main (checked under Spec)                         *)
(***************************************************************************)
\* the identifier the selection loop parses from the name of a deps entry
DepsId(e) ==
    extract_fingerprint(unwrap_or_default(file_stem(DepsPath(e.name))))
DepsExt(e) == unwrap_or_default(extension(DepsPath(e.name)))
IsLive(e) ==
    LET id == DepsId(e)
    IN  id.some /\ <<id.val.name, id.val.hash>> \in fingerprints

\* main is past the selection loop
PastSelection ==
    pc \in {"incremental", "decide", "execute", "done", "exec_error", "panic"}

RECURSIVE SumMeasured(_)
SumMeasured(S) ==
    IF S = {}
    THEN 0
    ELSE LET x == CHOOSE y \in S : TRUE
         IN  measured[x] + SumMeasured(S \ {x})

\* C4: at every point of a run no file of the deps tree whose stem parses to
\* an identifier of the LiveSet has been removed, and every entry removed
\* from the deps tree is a path of files_to_remove.
C4_LiveFilesNeverRemoved ==
    /\ \A e \in deps0 : (e.kind = "file" /\ IsLive(e)) => e \in deps_dir
    /\ \A e \in deps0 \ deps_dir : DepsPath(e.name) \in files_to_remove

\* the entries the selection is to select
ShouldSelect(e) ==
    /\ e.kind # "dir"
    /\ LET id == DepsId(e)
       IN  /\ id.some
           /\ <<id.val.name, id.val.hash>> \notin fingerprints
    /\ DepsExt(e) # <<"d">>

\* C5: the selection selects an entry iff it is no directory, its stem
\* parses, its extension is not "d" and its (unnormalized name, hash) is not
\* in the LiveSet; files_to_remove holds the canonical paths of exactly the
\* selected entries, so no entry with extension "d" is selected.
C5_SelectionExact ==
    PastSelection =>
        /\ files_to_remove =
               { canonicalize(deps0, e).val : e \in { d \in deps0 : ShouldSelect(d) } }
        /\ \A e \in deps0 :
              (/\ e.kind = "file"
               /\ DepsPath(e.name) \in files_to_remove
               /\ ~\E l \in deps0 : l.kind = "symlink" /\ l.target = e.name)
              => ShouldSelect(e)

\* the example of the spec with a dependency-info file beside it:
\* {a-1.r, a-2.r, a-1.d} with LiveSet {(a,2)} selects exactly a-1.r
C5_Witness ==
    /\ PastSelection
    /\ { e.name : e \in deps0 } = { <<"a", "-", "1", ".", "r">>,
                                    <<"a", "-", "2", ".", "r">>,
                                    <<"a", "-", "1", ".", "d">> }
    /\ fingerprints = { << <<"a">>, <<"2">> >> }
    /\ files_to_remove = { DepsPath(<<"a", "-", "1", ".", "r">>) }

\* no identifier parses from any output path of any record of the plan
NoIdentifier(json) ==
    \A i \in 1..Len(json) :
        LET names == unwrap_or_default(json[i].filenames)
        IN  \A j \in 1..Len(names) :
                LET stem == file_stem(names[j])
                IN  ~(stem.some /\ extract_fingerprint(stem.val).some)

\* C6: when no identifier parses from the build plan, from_json fails, the
\* run ends in the error, and nothing has been removed; the run takes no
\* step after the error.
C6_EmptyLiveSetAborts ==
    [][ /\ pc # "error"
        /\ (pc = "from_json" /\ NoIdentifier(stdout))
              => /\ pc' = "error"
                 /\ deps_dir' = deps0
                 /\ inc_dir' = inc0
                 /\ measured' = <<>> ]_vars

C6_Witness ==
    /\ pc = "error"
    /\ stdout # <<>>
    /\ \A i \in 1..Len(stdout) : stdout[i].json
    /\ \E i \in 1..Len(stdout) : unwrap_or_default(stdout[i].filenames) # <<>>
    /\ NoIdentifier(stdout)
    /\ \E e \in deps0 : ShouldSelect(e)
    /\ deps_dir = deps0

\* position of an entry in a sequence that holds it
IndexIn(order, e) == CHOOSE i \in 1..Len(order) : order[i] = e

\* what the reduction returns for a listing enumerated in `order`: every
\* session but the first enumerated of its name
ReductionOf(dir, order) ==
    { SessionPath(e) : e \in
        { s \in SessionsOf(dir) :
            \E f \in SessionsOf(dir) :
                /\ SessionName(f) = SessionName(s)
                /\ IndexIn(order, f) < IndexIn(order, s) } }

\* C7: a dry run computes files_to_remove and the incremental removal set
\* as a run that removes does (where the two sets are reported, before the
\* run looks at dry_run, they are those of the selection and of the
\* reduction whatever dry_run is), and ends without removing anything: the
\* deps and incremental trees are as they were when it started.
C7_DryRunChangesNothing ==
    /\ pc = "decide" =>
          /\ files_to_remove =
                { canonicalize(deps0, e).val :
                    e \in { d \in deps0 : ShouldSelect(d) } }
          /\ incremental_files_to_remove = ReductionOf(inc0, inc_order)
    /\ dry_run =>
          /\ pc \notin {"execute", "exec_error", "panic"}
          /\ deps_dir = deps0
          /\ inc_dir = inc0
          /\ measured = <<>>
          /\ report = None

C7_Witness ==
    /\ dry_run
    /\ pc = "done"
    /\ files_to_remove # {}
    /\ incremental_files_to_remove # {}
    /\ deps_dir = deps0
    /\ inc_dir = inc0

\* C8: with no incremental directory selected, when the removal of k of the
\* N selected files fails the report has removed = N - k, failures = k and
\* a freed-bytes total that is the sum of the sizes measured for the files
\* whose removal succeeded.
C8_DeletionAccounting ==
    (pc = "done" /\ report.some /\ incremental_files_to_remove = {}) =>
        LET N == Cardinality(files_to_remove)
            k == Cardinality(rm_failed)
        IN  /\ ~report.val.wrapped
            /\ report.val.removed = N - k
            /\ report.val.failed = k
            /\ report.val.success_size = SumMeasured(files_to_remove \ rm_failed)

C8_Witness ==
    /\ pc = "done"
    /\ report.some
    /\ incremental_files_to_remove = {}
    /\ Cardinality(files_to_remove) >= 2
    /\ Cardinality(rm_failed) = 1
    /\ \A f \in files_to_remove : measured[f] > 0
    /\ report.val.removed = Cardinality(files_to_remove) - 1
    /\ report.val.success_size > 0

\* C9: no failure on a selected item aborts the batch: the run never ends
\* inside the execution phase, and when it has ended every selected file
\* and incremental directory was attempted and the report was printed.
C9_FailureNeverAborts ==
    /\ pc \notin {"exec_error", "panic"}
    /\ (pc = "done" /\ ~dry_run) =>
          /\ report.some
          /\ DOMAIN measured = files_to_remove \cup incremental_files_to_remove

\* C10: the removed-files figure of the report is the number of selected
\* deps files whose removal succeeded, whatever became of the incremental
\* directories.
C10_RemovedCountsFiles ==
    (pc = "done" /\ report.some) =>
        /\ ~report.val.wrapped
        /\ report.val.removed = Cardinality(files_to_remove \ rm_failed)

\* something of the two trees was removed, or a removal was attempted
FsTouched == deps_dir # deps0 \/ inc_dir # inc0 \/ measured # <<>>

\* a deps entry whose path cannot be canonicalized: a symlink to nothing
Dangling(e) ==
    /\ e.kind = "symlink"
    /\ ~\E t \in deps0 : t.name = e.target /\ t.kind # "symlink"

\* C11: nothing is removed before the deps selection and the incremental
\* reduction have both completed; a fatal error (empty LiveSet, missing deps
\* directory, unreadable entry, canonicalization failure) ends the run with
\* both trees as they were, and with a missing deps directory or a path that
\* cannot be canonicalized the run never gets past the selection.
C11_NothingRemovedBeforeResolved ==
    /\ FsTouched =>
          /\ pc \in {"execute", "done", "exec_error", "panic"}
          /\ ~dry_run
          /\ fingerprints # {}
          /\ incremental_files_to_remove = ReductionOf(inc0, inc_order)
          /\ DOMAIN measured \subseteq files_to_remove \cup incremental_files_to_remove
    /\ pc = "error" => ~FsTouched
    /\ (~deps_exists \/ \E e \in deps0 : Dangling(e)) => ~PastSelection
    /\ PastSelection => fingerprints # {}

\* the selection had completed with something to remove when the reduction
\* failed: the run ended with nothing removed
C11_Witness ==
    /\ pc = "error"
    /\ files_to_remove # {}
    /\ SessionsOf(inc0) # {}
    /\ deps_dir = deps0
    /\ inc_dir = inc0

(***************************************************************************)
(* Claims about the pure functions (checked under SpecUtil)                *)
(***************************************************************************)
Count(str, c) == Cardinality({i \in 1..Len(str) : str[i] = c})

\* C12: a string with a '-' parses to Some((name, hash)) with
\* name ++ "-" ++ hash the string and no '-' in hash; a string without '-'
\* parses to None.
C12_SplitAtRightmost ==
    fn_name = "extract_fingerprint" =>
        LET r == fn_result.val
        IN  IF Count(fn_arg, "-") = 0
            THEN r = None
            ELSE /\ r.some
                 /\ r.val.name \o <<"-">> \o r.val.hash = fn_arg
                 /\ Count(r.val.hash, "-") = 0

\* a string with two separators was parsed
C12_Witness ==
    /\ fn_name = "extract_fingerprint"
    /\ Count(fn_arg, "-") = 2
    /\ fn_result.val.some
    /\ Count(fn_result.val.val.name, "-") = 1

\* x and y differ only in '-' versus '_'
SameUpToSeparator(x, y) ==
    /\ Len(x) = Len(y)
    /\ \A i \in 1..Len(x) :
          x[i] # y[i] => {x[i], y[i]} = {"-", "_"}

\* C13: the result has '_' where the argument has '-' and is the argument
\* elsewhere; normalizing the result gives the result; every string that
\* differs from the argument only in '-' versus '_' normalizes to the same.
C13_NormalizeIdempotent ==
    fn_name = "normalize_package_name" =>
        LET r == fn_result.val
        IN  /\ Len(r) = Len(fn_arg)
            /\ \A i \in 1..Len(r) :
                  r[i] = (IF fn_arg[i] = "-" THEN "_" ELSE fn_arg[i])
            /\ normalize_package_name(r) = r
            /\ \A y \in Inputs :
                  SameUpToSeparator(fn_arg, y) => normalize_package_name(y) = r

\* a name with two '-' was normalized, and so was "git2-curl"
C13_Witness ==
    /\ fn_name = "normalize_package_name"
    /\ \/ Count(fn_arg, "-") = 2
       \/ /\ fn_arg = <<"g", "i", "t", "2", "-", "c", "u", "r", "l">>
          /\ fn_result.val = <<"g", "i", "t", "2", "_", "c", "u", "r", "l">>
    /\ Count(fn_result.val, "-") = 0

\* C14: "dev" gives "debug", every other profile gives itself.
C14_DevIsDebug ==
    fn_name = "profile_to_dir" =>
        /\ fn_arg = <<"d", "e", "v">> =>
              fn_result.val = <<"d", "e", "b", "u", "g">>
        /\ fn_arg # <<"d", "e", "v">> => fn_result.val = fn_arg

\* the profile dev was mapped
C14_Witness ==
    /\ fn_name = "profile_to_dir"
    /\ fn_arg = <<"d", "e", "v">>
    /\ fn_result.val = <<"d", "e", "b", "u", "g">>

(***************************************************************************)
(* Claims about the Beatrice index (checked under SpecLib)                 *)
(***************************************************************************)
\* a step of the method `op`: the call recorded after the step is `op`, and
\* the directories are as they were (they change in no step of a method)
StepOf(op) ==
    /\ lib_call'.op = op
    /\ UNCHANGED <<fp_exists, fp_dir, fsVars>>

\* C15: in every reachable state of the two libraries the figures of
\* report() add up: with + without = count for Fresh, Dirty and Unknown, the
\* total is the sum of the three counts, and the deps items without a
\* fingerprint are at most the deps items.
C15_ReportCountsAddUp ==
    LET r == report_figures(fingerprint_library, deps_library)
    IN  /\ r.fresh_with_deps + r.fresh_without_deps = r.fresh_count
        /\ r.dirty_with_deps + r.dirty_without_deps = r.dirty_count
        /\ r.unknown_with_deps + r.unknown_without_deps = r.unknown_count
        /\ r.total_fingerprints = r.fresh_count + r.dirty_count + r.unknown_count
        /\ r.total_fingerprints = Cardinality(Pairs(fingerprint_library))
        /\ r.deps_without_fingerprints <= r.total_deps_items
        /\ lib_call.op = "report" => lib_result = Some(r)

\* a report over a Fresh fingerprint with a deps record, a Dirty one without,
\* and a deps record without a fingerprint
C15_Witness ==
    /\ lib_call.op = "report"
    /\ lib_result.val.fresh_with_deps = 1
    /\ lib_result.val.dirty_without_deps = 1
    /\ lib_result.val.deps_without_fingerprints = 1
    /\ lib_result.val.total_deps_items = 2

\* C16: a call of update_fingerprint_freshness leaves the deps library and
\* the keys of the fingerprint library as they were, changes nothing at all
\* when the (normalized name, hash) pair is not there, and the same call
\* made again changes nothing.
C16_UpdateNeverCreates ==
    [][StepOf("update_fingerprint_freshness") =>
          LET c == lib_call'
              pair == <<normalize_package_name(c.name), c.hash>>
          IN  /\ deps_library' = deps_library
              /\ DOMAIN fingerprint_library' = DOMAIN fingerprint_library
              /\ Pairs(fingerprint_library') = Pairs(fingerprint_library)
              /\ pair \notin Pairs(fingerprint_library) =>
                    fingerprint_library' = fingerprint_library
              /\ update_fingerprint_freshness(fingerprint_library', c.name,
                                              c.hash, c.freshness)
                 = fingerprint_library']_vars

\* an update for a pair a scanned, non-empty library does not hold
C16_Witness ==
    /\ lib_call.op = "update_fingerprint_freshness"
    /\ lib_call.freshness = Fresh
    /\ fingerprint_library # <<>>
    /\ <<normalize_package_name(lib_call.name), lib_call.hash>>
           \notin Pairs(fingerprint_library)

\* the deps entry d is `<fingerprint entry f>.<ext>`
Corresponds(f, d) ==
    /\ extract_fingerprint(f.name).some
    /\ extension(d.name).some
    /\ file_stem(d.name) = Some(f.name)

\* C17: after a successful scan, a fingerprint entry <name>-<hash> and a
\* deps entry <name>-<hash>.<ext> correspond: get_deps_info(name, hash) finds
\* the deps record, the report counts the fingerprint with deps, and the deps
\* record is not counted as being without a fingerprint.
C17_TreesCorrespond ==
    [][(StepOf("load_library") /\ lib_result' = Some(TRUE)) =>
          \A f \in fp_dir, d \in deps_dir :
              Corresponds(f, d) =>
                  LET id == extract_fingerprint(f.name).val
                      r == report_figures(fingerprint_library', deps_library')
                  IN  /\ get_deps_info(deps_library', id.name, id.hash).some
                      /\ r.unknown_with_deps >= 1
                      /\ r.deps_without_fingerprints < r.total_deps_items]_vars

\* the keys the scans derive from the parseable entries on disk
FingerprintKeys(dir) ==
    { <<normalize_package_name(extract_fingerprint(e.name).val.name),
        extract_fingerprint(e.name).val.hash>> :
          e \in {x \in dir : extract_fingerprint(x.name).some} }

\* C18: a successful load_library leaves exactly the keys derived from the
\* parseable entries now on disk in both libraries, whatever they held, with
\* every fingerprint Unknown; a missing directory gives an empty library and
\* is no error.
C18_ScanRebuilds ==
    [][StepOf("load_library") =>
          /\ lib_result' = Some(TRUE) =>
                /\ Pairs(fingerprint_library') = FingerprintKeys(fp_dir)
                /\ Pairs(deps_library') = FingerprintKeys(deps_dir)
                /\ \A p \in Pairs(fingerprint_library') :
                      fingerprint_library'[p[1]][p[2]].freshness = Unknown
                /\ \A n \in DOMAIN fingerprint_library' :
                      DOMAIN fingerprint_library'[n] # {}
                /\ ~fp_exists => fingerprint_library' = <<>>
                /\ ~deps_exists => deps_library' = <<>>
          /\ (~fp_exists /\ ~deps_exists) => lib_result' = Some(TRUE)]_vars

\* a successful scan of a profile without .fingerprint, by a Beatrice that
\* held fingerprints of an earlier scan
C18_Witness ==
    /\ lib_call.op = "load_library"
    /\ lib_result = Some(TRUE)
    /\ lib_call.before.fingerprints # {}
    /\ lib_call.before.deps # {}
    /\ fingerprint_library = <<>>
    /\ deps_library # <<>>
    /\ ~(lib_call.before.deps \subseteq Pairs(deps_library))

(***************************************************************************)
(* Claims about the plan beside freshness annotations (under SpecFresh)    *)
(***************************************************************************)
\* the freshness the Beatrice holds for the unit of a deps entry
FreshnessOf(e) ==
    LET id == DepsId(e)
    IN  IF id.some
        THEN get_fingerprint_freshness(fingerprint_library, id.val.name,
                                       id.val.hash)
        ELSE None

\* C19: whatever freshness the fingerprints carry (all Unknown when no oracle
\* ran), the plan is the one the deps tree, the LiveSet and the listing of
\* the incremental tree determine: the selected deps files are those of the
\* selection rule, the selected session directories those of the reduction.
C19_PlanIgnoresFreshness ==
    pc \in {"decide", "done"} =>
        /\ files_to_remove =
              { canonicalize(deps0, e).val :
                  e \in { d \in deps0 : d.kind # "dir" /\ ~IsLive(d)
                                        /\ DepsId(d).some
                                        /\ DepsExt(d) # <<"d">> } }
        /\ incremental_files_to_remove = ReductionOf(inc0, inc_order)
        /\ \A e \in deps0 :
              (e.kind = "file" /\ FreshnessOf(e) = Some(Fresh) /\ ~IsLive(e)
               /\ DepsExt(e) # <<"d">>)
              => DepsPath(e.name) \in files_to_remove

\* the plan holds the file of a unit the oracle found Fresh
C19_Witness ==
    /\ pc = "decide"
    /\ lib_call.op = "scan"
    /\ \E e \in deps0 :
          /\ e.kind = "file"
          /\ FreshnessOf(e) = Some(Fresh)
          /\ DepsPath(e.name) \in files_to_remove
    /\ incremental_files_to_remove # {}

(***************************************************************************)
(* Claim about the resolution of the LiveSet (checked under Spec)          *)
(***************************************************************************)
\* the output paths of the records of a plan; a record without `filenames`
\* has none
OutputPaths(json) ==
    UNION { { unwrap_or_default(json[i].filenames)[j] :
                j \in 1..Len(unwrap_or_default(json[i].filenames)) }
            : i \in 1..Len(json) }

\* the identifiers of the output paths whose stem is non-empty and parses,
\* the name as it is written
LiveIds(json) ==
    { << extract_fingerprint(file_stem(p).val).val.name,
         extract_fingerprint(file_stem(p).val).val.hash >> :
        p \in { q \in OutputPaths(json) :
                  /\ file_stem(q).some
                  /\ file_stem(q).val # <<>>
                  /\ extract_fingerprint(file_stem(q).val).some } }

\* C20: from_json on a plan of well-formed records with at least one
\* identifier returns exactly the identifiers of the output paths whose stem
\* is non-empty and parses, names with their hyphens; a record without
\* `filenames` adds nothing and is no error. (A plan without any identifier,
\* or with a line that is no record, is the error of from_json.)
C20_LiveSetIsParsedStems ==
    [][pc = "from_json" =>
          IF (\A i \in 1..Len(stdout) : stdout[i].json) /\ LiveIds(stdout) # {}
          THEN /\ pc' = "read_deps"
               /\ fingerprints' = LiveIds(stdout)
          ELSE pc' = "error"]_vars

\* a plan with a record without `filenames` and a record with two output
\* paths was resolved to two identifiers
C20_Witness ==
    /\ pc = "read_deps"
    /\ \E i \in 1..Len(stdout) : stdout[i] = Item(None)
    /\ Cardinality(fingerprints) = 2
    /\ fingerprints = LiveIds(stdout)

(***************************************************************************)
(* Claims about the command line (checked under SpecCli)                   *)
(***************************************************************************)
\* the argument at position i is the value of the option before it
RECURSIVE IsValue(_, _)
IsValue(cargo_args, i) ==
    /\ i > 1
    /\ cargo_args[i - 1] \in {<<"--features">>, <<"--target">>, <<"--profile">>}
    /\ ~IsValue(cargo_args, i - 1)

\* the flag is given: it stands where an option is read
Given(cargo_args, flag) ==
    \E i \in 1..Len(cargo_args) :
        cargo_args[i] = <<flag>> /\ ~IsValue(cargo_args, i)

\* the positions of `--profile <v>` and of `--profile=<v>`
ProfileAt(cargo_args) ==
    { i \in 1..Len(cargo_args) :
        /\ ~IsValue(cargo_args, i)
        /\ \/ cargo_args[i] = <<"--profile">> /\ i < Len(cargo_args)
           \/ starts_with(cargo_args[i], "--profile") }

\* the profile the claim gives a run
EffectiveProfile(args) ==
    LET P == ProfileAt(args.cargo_args)
    IN  IF P = {}
        THEN args.profile
        ELSE LET i == CHOOSE k \in P : \A m \in P : m <= k
             IN  IF args.cargo_args[i] = <<"--profile">>
                 THEN args.cargo_args[i + 1]
                 ELSE SubSeq(args.cargo_args[i], 3, Len(args.cargo_args[i]))

\* C21: from_args gives the value of the last --profile of the cargo
\* arguments, else the selected profile; mode Test and has_dev_units Yes
\* exactly for the profiles test and bench; all_features exactly when
\* --all-features is given; uses_default_features false exactly when
\* --no-default-features is given without --all-features; one requested
\* kind; force_all_targets No.
C21_ConfigFromArgs ==
    fn_name = "from_args" =>
        LET c == fn_result.val
            test == EffectiveProfile(fn_arg) \in {ProfileTest, ProfileBench}
        IN  /\ c.profile_name = EffectiveProfile(fn_arg)
            /\ c.mode = "Test" <=> test
            /\ c.mode = "Build" <=> ~test
            /\ c.has_dev_units = "Yes" <=> test
            /\ c.has_dev_units = "No" <=> ~test
            /\ c.features.all_features
                  <=> Given(fn_arg.cargo_args, "--all-features")
            /\ ~c.features.uses_default_features
                  <=> (/\ Given(fn_arg.cargo_args, "--no-default-features")
                       /\ ~Given(fn_arg.cargo_args, "--all-features"))
            /\ Len(c.requested_kinds) = 1
            /\ c.force_all_targets = "No"

\* C22: the profile directory of a run is <target_dir>/profile_to_dir(profile):
\* debug for the profile dev, which is the profile of a command line with
\* neither --release nor --profile, and the profile's name for every other.
C22_ProfileDirIsProfileToDir ==
    (fn_name = "profile_path" /\ fn_result.some) =>
        LET profile == from_cli(fn_arg).val.profile
        IN  /\ fn_result.val = TargetPath \o <<"/">> \o profile_to_dir(profile)
            /\ (~fn_arg.profile.some /\ ~fn_arg.release) =>
                  fn_result.val = TargetPath \o <<"/">> \o ProfileDebug

(***************************************************************************)
(* More claims about the Beatrice index (checked under SpecLib)            *)
(***************************************************************************)
\* the spellings of the names of the calls, hyphens and underscores
Spellings(name) ==
    { n \in LibNames \cup { normalize_package_name(m) : m \in LibNames } :
        normalize_package_name(n) = normalize_package_name(name) }

\* C23: after update_fingerprint_freshness(n, h, f) for a pair the library
\* holds, get_fingerprint_freshness(n', h) is f for every spelling n' of n;
\* get_fingerprint_freshness, has_package and get_deps_info leave both
\* libraries as they are and answer for the normalized name.
C23_LookupsNormalizedReadOnly ==
    [][/\ StepOf("update_fingerprint_freshness") =>
             LET c == lib_call'
             IN  <<normalize_package_name(c.name), c.hash>>
                     \in Pairs(fingerprint_library)
                 => \A n \in Spellings(c.name) :
                       get_fingerprint_freshness(fingerprint_library', n, c.hash)
                       = Some(c.freshness)
       /\ (\/ StepOf("get_fingerprint_freshness")
           \/ StepOf("has_package")
           \/ StepOf("get_deps_info")) =>
             UNCHANGED <<fingerprint_library, deps_library>>
       /\ StepOf("get_fingerprint_freshness") =>
             \A n \in Spellings(lib_call'.name) :
                 get_fingerprint_freshness(fingerprint_library, n, lib_call'.hash)
                 = lib_result'
       /\ StepOf("has_package") =>
             lib_result'.val =
                 (normalize_package_name(lib_call'.name)
                      \in DOMAIN fingerprint_library)
       /\ StepOf("get_deps_info") =>
             lib_result' = get(deps_library,
                               normalize_package_name(lib_call'.name),
                               lib_call'.hash)]_vars

\* the fingerprint b-c-1 was made Dirty under its hyphenated name and is
\* found under b_c
C23_Witness ==
    /\ lib_call.op = "update_fingerprint_freshness"
    /\ lib_call.name = <<"b", "-", "c">>
    /\ lib_call.freshness = Dirty(<<"r">>)
    /\ get(fingerprint_library, <<"b", "_", "c">>, lib_call.hash)
           = Some(FingerprintInfo(Dirty(<<"r">>)))

\* C25: in every reachable state the figures of report() count every deps
\* record once: those with a fingerprint of the same name and hash, Fresh,
\* Dirty or Unknown, and those without add up to the deps records.
C25_ReportPartitionsDeps ==
    LET r == report_figures(fingerprint_library, deps_library)
    IN  /\ r.fresh_with_deps + r.dirty_with_deps + r.unknown_with_deps
              + r.deps_without_fingerprints = r.total_deps_items
        /\ r.total_deps_items = Cardinality(Pairs(deps_library))
        /\ r.fresh_with_deps + r.dirty_with_deps + r.unknown_with_deps
              = Cardinality(Pairs(deps_library) \cap Pairs(fingerprint_library))

\* two deps records of one package, one with a fingerprint of its hash and
\* one without, and a fingerprint without a deps record
C25_Witness ==
    /\ Cardinality(Pairs(deps_library)) = 2
    /\ Cardinality(Pairs(deps_library) \cap Pairs(fingerprint_library)) = 1
    /\ Cardinality(Pairs(fingerprint_library)) = 2
    /\ lib_call.op = "report"
    /\ lib_result.val.deps_without_fingerprints = 1

(***************************************************************************)
(* Claim about the arithmetic of the report (checked under Spec)           *)
(***************************************************************************)
\* C24: in the execution phase the failure counter is at most the number of
\* selected deps files, so total_count - failed does not underflow: the run
\* does not panic on it and the report holds no wrapped figure; the
\* freed-bytes total is never below zero.
C24_CountersNeverUnderflow ==
    /\ pc \in {"execute", "done", "exec_error", "panic"} =>
          /\ failed <= total_count
          /\ success_size >= 0
    /\ pc # "panic"
    /\ report.some => ~report.val.wrapped

====
